---- MODULE Spec2Model ----
(***************************************************************************)
(* Verification model of the synthetic-data generators of Datasets-Final.  *)
(*                                                                         *)
(* The repository is a set of independent batch scripts.  Each script is   *)
(* modelled by a specification of its own over its own group of variables; *)
(* the variables of the other scripts stay at their idle value.            *)
(*                                                                         *)
(*   SpecTracker   banking-code/transactions.py, class BalanceTracker      *)
(*   SpecBank      banking-code/transactions.py, the year generator        *)
(*   SpecBookings  airplane code/bookings.py                               *)
(*   SpecClaims    insurance code/claims.py                                *)
(*   SpecDebitOrders  banking-code/debit_orders.py                         *)
(*   SpecCustomers    insurance code/customers.py, airplane code/customers.py *)
(*   SpecFlights      airplane code/flights.py                             *)
(*   SpecPrices       airplane code/schedules.py, calculate_dynamic_price  *)
(*   SpecLoad         the input loading of accounts.py, bookings.py, claims.py *)
(*   SpecSchedule     airplane code/schedules.py, generate_flight_schedule *)
(*   SpecSeats        airplane code/bookings.py, the seat requests         *)
(*   SpecMonthly      banking-code/debit_order_transactions.py             *)
(*   SpecLoans        banking-code/loans_trans.py, the payment schedule    *)
(*   SpecPayments     insurance code/payment_history.py                    *)
(***************************************************************************)
EXTENDS Integers, Sequences, FiniteSets, TLC

VARIABLES
    account_balances,   \* BalanceTracker.account_balances: account_id -> record
    lastCan,            \* the last can_transact call and what it returned
    lastProc,           \* the last process_transaction call, its result and effect
    nCalls,             \* number of tracker calls made so far
    accounts_df,        \* the accounts table: account_id -> row
    loan_transactions_df,         \* loan payment rows loaded for the year
    debit_order_transactions_df,  \* debit-order rows loaded for the year
    bank_pc,            \* position in generate_transactions_for_year
    single_date,        \* the day of the year the month loop is at
    purchases_today,    \* category-loop iterations done for single_date
    initial_deposits,   \* rows of the initial-deposit table
    transactions,       \* rows collected for the monthly files
    times_applied,      \* scheduled row -> times it has changed a balance
    df_policies,        \* claims.py: the policies table read from parquet
    claims,             \* claims.py: the claim rows appended so far
    claims_pc,          \* claims.py: position in the loop over one policy
    num_claims,         \* claims.py: iterations left of range(num_claims)
    flight_data,        \* bookings.py: flights of the target year
    bookings,           \* bookings.py: the booking rows appended so far
    bookings_pc,        \* bookings.py: position in generate_bookings
    flight_idx,         \* bookings.py: row of flight_data being processed
    target_bookings,    \* bookings.py: seats to sell on the current flight
    current_bookings,   \* bookings.py: seats sold on the current flight
    attempts,           \* bookings.py: iterations of the while loop so far
    debit_accounts_df,  \* debit_orders.py: accounts_df, the rows of the account files
    customers_dict,     \* debit_orders.py: the customer ids that have a row
    num_debit_orders,   \* debit_orders.py: the number of orders drawn at line 75
    debit_pc,           \* debit_orders.py: position in the generation loop
    debit_i,            \* debit_orders.py: the loop index i
    source_account_id,  \* debit_orders.py: account_id, the source account of order i
    target_account,     \* debit_orders.py: the transfer target of order i
    resampled,          \* debit_orders.py: the row sample(1, seed_int + i) yields
    while_turns,        \* debit_orders.py: turns of the while loop for order i, modulo 2
    debit_orders,       \* debit_orders.py: the rows appended so far
    customer_data,      \* customers.py: the rows appended to data, per script
    flights_pc,         \* flights.py: position in the run of the script
    faker_seed,         \* flights.py: the state Faker's own generator started the run with
    flights,            \* flights.py: the rows of the list built by generate_flights
    flights_parquet,    \* flights.py: run -> the table that run wrote to flights.parquet
    priced,             \* schedules.py: the flight priced last, with its final_price
    load_script,        \* the script whose run is followed
    input_files,        \* the input files that exist when the script starts
    load_pc,            \* position of the script in its loading code
    printed,            \* whether the script has printed an error message
    load_result,        \* what the run ended with, as its caller sees it
    output_written,     \* whether the script has written its output table
    planes_df,          \* schedules.py: the plane ids of planes_df
    available_routes,   \* schedules.py: the routes of the target year, in table order
    aircraft_status,    \* schedules.py: plane_id -> location and last_arrival
    schedule,           \* schedules.py: the list `flights` of records appended so far
    current_date,       \* schedules.py: day of date_range the loop is at (0 = 1 January)
    slot,               \* schedules.py: position in the day's (route, hour) iterations
    schedule_pc,        \* schedules.py: position in generate_flight_schedule
    flight_seat_assignments,  \* bookings.py: planning_id -> seats given out on it
    booking_counter,    \* bookings.py: the number the next booking_id carries
    seat_bookings,      \* bookings.py: the rows of `bookings`, with their seat_request
    debit_order,        \* debit_order_transactions.py: the active debit order followed
    dot_single_date,    \* debit_order_transactions.py: single_date of the loop over date_range
    dot_transactions,   \* debit_order_transactions.py: transaction_date of the rows appended
    dot_pc,             \* debit_order_transactions.py: position in the generation loop
    loan,               \* loans_trans.py: the loan row and its entry of default_map
    recovery_drawn,     \* loans_trans.py: the value random.randint(2, 6) returned
    recovery_attempts,  \* loans_trans.py: recovery attempts left
    loan_month,         \* loans_trans.py: `month` of the loop over range(terms_months)
    loan_transactions,  \* loans_trans.py: the rows appended for the loan
    loan_pc,            \* loans_trans.py: position in generate_loan_payment_schedule
    pay_policy,         \* payment_history.py: `policy`, the row of df_policies being processed
    pay_current_date,   \* payment_history.py: current_date of the while loop
    payment_number,     \* payment_history.py: payments generated for the policy so far
    all_payments,       \* payment_history.py: Payment_Date of the rows appended for the policy
    pay_pc              \* payment_history.py: position in the loop body for the policy

trackerVars == <<account_balances, lastCan, lastProc, nCalls>>

bankVars == <<accounts_df, loan_transactions_df, debit_order_transactions_df,
              bank_pc, single_date, purchases_today, initial_deposits,
              transactions, times_applied>>

claimVars == <<df_policies, claims, claims_pc, num_claims>>

bookingVars == <<flight_data, bookings, bookings_pc, flight_idx,
                 target_bookings, current_bookings, attempts>>

debitOrderVars == <<debit_accounts_df, customers_dict, num_debit_orders,
                    debit_pc, debit_i, source_account_id, target_account,
                    resampled, while_turns, debit_orders>>

\* The scripts added after the first four.
customerVars == <<customer_data>>

flightVars == <<flights_pc, faker_seed, flights, flights_parquet>>

priceVars == <<priced>>

loadVars == <<load_script, input_files, load_pc, printed, load_result, output_written>>

scheduleVars == <<planes_df, available_routes, aircraft_status, schedule, current_date, slot, schedule_pc>>

midVars == <<debitOrderVars, customerVars, flightVars, priceVars, loadVars, scheduleVars>>

seatVars == <<flight_seat_assignments, booking_counter, seat_bookings>>

monthlyVars == <<debit_order, dot_single_date, dot_transactions, dot_pc>>

loanVars == <<loan, recovery_drawn, recovery_attempts, loan_month, loan_transactions, loan_pc>>

paymentVars == <<pay_policy, pay_current_date, payment_number, all_payments, pay_pc>>

finalVars == <<seatVars, monthlyVars, loanVars, paymentVars>>

laterVars == <<midVars, finalVars>>

vars == <<trackerVars, bankVars, claimVars, bookingVars, laterVars>>

\* What each script leaves alone.
notTracker == <<bankVars, claimVars, bookingVars, laterVars>>
notBank == <<lastCan, lastProc, nCalls, claimVars, bookingVars, laterVars>>
notClaims == <<trackerVars, bankVars, bookingVars, laterVars>>
notBookings == <<trackerVars, bankVars, claimVars, laterVars>>
notDebitOrders == <<trackerVars, bankVars, claimVars, bookingVars, customerVars, flightVars, priceVars, loadVars, scheduleVars, finalVars>>
notCustomers == <<trackerVars, bankVars, claimVars, bookingVars, debitOrderVars, flightVars, priceVars, loadVars, scheduleVars, finalVars>>
notFlights == <<trackerVars, bankVars, claimVars, bookingVars, debitOrderVars, customerVars, priceVars, loadVars, scheduleVars, finalVars>>
notLoad == <<trackerVars, bankVars, claimVars, bookingVars, debitOrderVars, customerVars, flightVars, priceVars, scheduleVars, finalVars>>
notSchedule == <<trackerVars, bankVars, claimVars, bookingVars, debitOrderVars, customerVars, flightVars, priceVars, loadVars, finalVars>>
notSeats == <<trackerVars, bankVars, claimVars, midVars, monthlyVars, loanVars, paymentVars>>
notMonthly == <<trackerVars, bankVars, claimVars, bookingVars, midVars, seatVars, loanVars, paymentVars>>
notLoans == <<trackerVars, bankVars, claimVars, bookingVars, midVars, seatVars, monthlyVars, paymentVars>>
notPayments == <<trackerVars, bankVars, claimVars, bookingVars, midVars, seatVars, monthlyVars, loanVars>>
notPrices == <<trackerVars, bankVars, claimVars, bookingVars, debitOrderVars, customerVars, flightVars, loadVars, scheduleVars, finalVars>>

\* No row of accounts_df has been read yet.
NoAccountRow == [account_id |-> "none", customer_id |-> "none"]

DebitOrdersIdle ==
    /\ debit_accounts_df = << >>
    /\ customers_dict = {}
    /\ num_debit_orders = 0
    /\ debit_pc = "idle"
    /\ debit_i = 0
    /\ source_account_id = "none"
    /\ target_account = NoAccountRow
    /\ resampled = NoAccountRow
    /\ while_turns = 0
    /\ debit_orders = << >>

CustomersIdle == customer_data = {}

FlightsIdle ==
    /\ flights_pc = "idle"
    /\ faker_seed = 0
    /\ flights = << >>
    /\ flights_parquet = << >>

\* No flight has been priced.
NotPriced == [origin |-> "none", route_kind |-> "none", flight_date |-> [year |-> 0, month |-> 0, day |-> 0], hour |-> 0, final_price |-> 0]

PricesIdle == priced = NotPriced

LoadIdle ==
    /\ load_script = "none"
    /\ input_files = {}
    /\ load_pc = "idle"
    /\ printed = FALSE
    /\ load_result = "none"
    /\ output_written = FALSE

ScheduleIdle ==
    /\ planes_df = << >>
    /\ available_routes = << >>
    /\ aircraft_status = << >>
    /\ schedule = << >>
    /\ current_date = 0
    /\ slot = 0
    /\ schedule_pc = "idle"

MidIdle == DebitOrdersIdle /\ CustomersIdle /\ FlightsIdle /\ PricesIdle /\ LoadIdle /\ ScheduleIdle

SeatsIdle ==
    /\ flight_seat_assignments = << >>
    /\ booking_counter = 0
    /\ seat_bookings = {}

\* No debit order has been read.
NoDebitOrder == [frequency |-> "none", start_date |-> 0, end_date |-> [kind |-> "None", value |-> 0], cancellation_date |-> [kind |-> "None", value |-> 0]]

MonthlyIdle ==
    /\ debit_order = NoDebitOrder
    /\ dot_single_date = 0
    /\ dot_transactions = << >>
    /\ dot_pc = "idle"

\* No loan has been read.
NoLoan == [approval_date |-> 0, terms_months |-> 0, in_default_map |-> FALSE, will_default |-> FALSE, default_date |-> [kind |-> "None", value |-> 0]]

LoansIdle ==
    /\ loan = NoLoan
    /\ recovery_drawn = 0
    /\ recovery_attempts = 0
    /\ loan_month = 0
    /\ loan_transactions = << >>
    /\ loan_pc = "idle"

\* No policy has been read.
NoPolicy == [Payment_Frequency |-> "none", Effective_Date |-> 0, Expiration_Date |-> 0]

PaymentsIdle ==
    /\ pay_policy = NoPolicy
    /\ pay_current_date = 0
    /\ payment_number = 0
    /\ all_payments = << >>
    /\ pay_pc = "idle"

FinalIdle == SeatsIdle /\ MonthlyIdle /\ LoansIdle /\ PaymentsIdle

LaterIdle == MidIdle /\ FinalIdle

ClaimsIdle ==
    /\ df_policies = << >>
    /\ claims = << >>
    /\ claims_pc = "idle"
    /\ num_claims = 0

BookingsIdle ==
    /\ flight_data = << >>
    /\ bookings = {}
    /\ bookings_pc = "idle"
    /\ flight_idx = 0
    /\ target_bookings = 0
    /\ current_bookings = 0
    /\ attempts = 0

(***************************************************************************)
(* banking-code/transactions.py: class BalanceTracker                      *)
(***************************************************************************)

\* The dict literal of BalanceTracker.__init__.
overdraft_limits ==
    [t \in {"Premium Banking", "Gold Banking", "Standard Banking",
            "Basic Banking", "Student Banking", "Business Banking"} |->
        CASE t = "Premium Banking"  -> -10000
          [] t = "Gold Banking"     -> -5000
          [] t = "Standard Banking" -> -2000
          [] t = "Basic Banking"    -> -500
          [] t = "Student Banking"  -> -200
          [] t = "Business Banking" -> -20000]

\* The fallback of self.overdraft_limits.get(account_type, -1000).
DefaultOverdraftLimit == -1000

\* self.overdraft_limits.get(account_type, -1000)
OverdraftLimitFor(account_type) ==
    IF account_type \in DOMAIN overdraft_limits
    THEN overdraft_limits[account_type]
    ELSE DefaultOverdraftLimit

\* initialize_account_balance: the dict after the assignment.
initialize_account_balance(ab, account_id, account_type, initial_deposit) ==
    [x \in DOMAIN ab \cup {account_id} |->
        IF x = account_id
        THEN [balance         |-> initial_deposit,
              account_type    |-> account_type,
              overdraft_limit |-> OverdraftLimitFor(account_type)]
        ELSE ab[x]]

\* A plausible slip: the comparison made strict.
can_transact_strict(ab, account_id, amount) ==
    IF account_id \notin DOMAIN ab
    THEN FALSE
    ELSE (ab[account_id].balance - amount) > ab[account_id].overdraft_limit

\* can_transact: the value returned.
can_transact(ab, account_id, amount) ==
    IF account_id \notin DOMAIN ab
    THEN FALSE
    ELSE (ab[account_id].balance - amount) >= ab[account_id].overdraft_limit

\* A plausible slip: the debit branch applied without the funds check.
process_transaction_unchecked(ab, account_id, amount, transaction_type) ==
    IF account_id \notin DOMAIN ab
    THEN [ok |-> FALSE, ab |-> ab]
    ELSE IF transaction_type = "debit"
         THEN [ok |-> TRUE,
               ab |-> [ab EXCEPT ![account_id].balance = @ - amount]]
         ELSE [ok |-> TRUE,
               ab |-> [ab EXCEPT ![account_id].balance = @ + amount]]

\* A plausible slip: the debit and credit branches swapped.
process_transaction_swapped(ab, account_id, amount, transaction_type) ==
    IF account_id \notin DOMAIN ab
    THEN [ok |-> FALSE, ab |-> ab]
    ELSE IF transaction_type # "debit"
         THEN IF ~can_transact(ab, account_id, amount)
              THEN [ok |-> FALSE, ab |-> ab]
              ELSE [ok |-> TRUE,
                    ab |-> [ab EXCEPT ![account_id].balance = @ - amount]]
         ELSE [ok |-> TRUE,
               ab |-> [ab EXCEPT ![account_id].balance = @ + amount]]

\* process_transaction: the value returned (ok) and the dict afterwards (ab).
process_transaction(ab, account_id, amount, transaction_type) ==
    IF account_id \notin DOMAIN ab
    THEN [ok |-> FALSE, ab |-> ab]
    ELSE IF transaction_type = "debit"
         THEN IF ~can_transact(ab, account_id, amount)
              THEN [ok |-> FALSE, ab |-> ab]
              ELSE [ok |-> TRUE,
                    ab |-> [ab EXCEPT ![account_id].balance = @ - amount]]
         ELSE [ok |-> TRUE,
               ab |-> [ab EXCEPT ![account_id].balance = @ + amount]]

\* get_balance: 0 for an unknown account.
get_balance(ab, account_id) ==
    IF account_id \notin DOMAIN ab THEN 0 ELSE ab[account_id].balance

(***************************************************************************)
(* SpecTracker: the BalanceTracker object under any sequence of calls.     *)
(***************************************************************************)

\* Number of tracker calls explored.
MaxCalls == 4

\* Account ids handed to the tracker.
TrackerAccountIds == {"ACC0000001", "ACC0000002"}

\* account_type arguments: two keys of overdraft_limits and one value that
\* is no key (it takes the fallback limit).
TrackerAccountTypes == {"Student Banking", "Basic Banking", "savings"}

\* Opening balances; the call is made only with one at or above the floor.
OpeningBalances == {-200, 0, 300}

\* Non-negative transaction amounts.
Amounts == {0, 200, 500, 1000}

NoCan == [op |-> "none", account |-> "", amount |-> 0, known |-> FALSE,
          balance |-> 0, limit |-> 0, result |-> FALSE]

NoProc == [op |-> "none", account |-> "", amount |-> 0,
           transaction_type |-> "", known |-> FALSE, before |-> 0,
           limit |-> 0, after |-> 0, result |-> FALSE]

BankIdle ==
    /\ accounts_df = << >>
    /\ loan_transactions_df = << >>
    /\ debit_order_transactions_df = << >>
    /\ bank_pc = "idle"
    /\ single_date = 0
    /\ purchases_today = 0
    /\ initial_deposits = {}
    /\ transactions = {}
    /\ times_applied = << >>

TrackerIdle ==
    /\ account_balances = << >>
    /\ lastCan = NoCan
    /\ lastProc = NoProc
    /\ nCalls = 0

\* BalanceTracker(): an empty dict.
TrackerInit == TrackerIdle /\ BankIdle /\ ClaimsIdle /\ BookingsIdle /\ LaterIdle

\* tracker.initialize_account_balance(account_id, account_type, initial_deposit)
InitializeAccountBalance ==
    \E id \in TrackerAccountIds, t \in TrackerAccountTypes, dep \in OpeningBalances :
        /\ nCalls < MaxCalls
        /\ dep >= OverdraftLimitFor(t)
        /\ account_balances' = initialize_account_balance(account_balances, id, t, dep)
        /\ nCalls' = nCalls + 1
        /\ UNCHANGED <<lastCan, lastProc, notTracker>>

\* tracker.can_transact(account_id, amount)
CanTransactCall ==
    \E id \in TrackerAccountIds, amount \in Amounts :
        /\ nCalls < MaxCalls
        /\ lastCan' = [op      |-> "can_transact",
                       account |-> id,
                       amount  |-> amount,
                       known   |-> id \in DOMAIN account_balances,
                       balance |-> get_balance(account_balances, id),
                       limit   |-> IF id \in DOMAIN account_balances
                                   THEN account_balances[id].overdraft_limit
                                   ELSE 0,
                       result  |-> can_transact(account_balances, id, amount)]
        /\ nCalls' = nCalls + 1
        /\ UNCHANGED <<account_balances, lastProc, notTracker>>

\* tracker.process_transaction(account_id, amount, transaction_type)
ProcessTransactionCall ==
    \E id \in TrackerAccountIds, amount \in Amounts,
       transaction_type \in {"debit", "credit"} :
        LET r == process_transaction(account_balances, id, amount, transaction_type)
        IN  /\ nCalls < MaxCalls
            /\ account_balances' = r.ab
            /\ lastProc' = [op               |-> "process_transaction",
                            account          |-> id,
                            amount           |-> amount,
                            transaction_type |-> transaction_type,
                            known            |-> id \in DOMAIN account_balances,
                            before           |-> get_balance(account_balances, id),
                            limit            |-> IF id \in DOMAIN account_balances
                                                 THEN account_balances[id].overdraft_limit
                                                 ELSE 0,
                            after            |-> get_balance(r.ab, id),
                            result           |-> r.ok]
            /\ nCalls' = nCalls + 1
            /\ UNCHANGED <<lastCan, notTracker>>

TrackerNext ==
    \/ InitializeAccountBalance
    \/ CanTransactCall
    \/ ProcessTransactionCall

SpecTracker == TrackerInit /\ [][TrackerNext]_vars

\* C1: can_transact(account, amount) returns true exactly when
\* (current balance - amount) >= the account's overdraft floor for an
\* initialised account, and false for an account never initialised.
C1_CanTransactContract ==
    lastCan.op = "can_transact" =>
        lastCan.result = (IF lastCan.known
                          THEN lastCan.balance - lastCan.amount >= lastCan.limit
                          ELSE FALSE)

\* C1 witness: a call that lands exactly on the floor and is allowed.
C1_Witness ==
    /\ lastCan.op = "can_transact"
    /\ lastCan.known
    /\ lastCan.amount > 0
    /\ lastCan.balance - lastCan.amount = lastCan.limit
    /\ lastCan.result

\* The other case of C1: a call for an account never initialised returns false.
C1_WitnessUnknown ==
    /\ lastCan.op = "can_transact"
    /\ ~lastCan.known
    /\ ~lastCan.result

\* C2: when every account is initialised at or above its overdraft floor,
\* then after any sequence of process calls with non-negative amounts every
\* account's balance is still at or above its floor.
C2_BalanceAboveFloor ==
    \A id \in DOMAIN account_balances :
        account_balances[id].balance >= account_balances[id].overdraft_limit

\* C2 witness: a successful debit has taken an account down to its floor.
C2_Witness ==
    /\ lastProc.op = "process_transaction"
    /\ lastProc.transaction_type = "debit"
    /\ lastProc.result
    /\ lastProc.amount > 0
    /\ lastProc.account \in DOMAIN account_balances
    /\ account_balances[lastProc.account].balance
           = account_balances[lastProc.account].overdraft_limit

\* C3: a debit on an initialised account returns true and lowers the balance
\* by exactly the amount when (balance - amount) >= floor; otherwise it
\* returns false and leaves the balance unchanged.
C3_DebitContract ==
    (/\ lastProc.op = "process_transaction"
     /\ lastProc.transaction_type = "debit"
     /\ lastProc.known) =>
        IF lastProc.before - lastProc.amount >= lastProc.limit
        THEN lastProc.result /\ lastProc.after = lastProc.before - lastProc.amount
        ELSE ~lastProc.result /\ lastProc.after = lastProc.before

\* C3 witness: a debit refused for breaching the floor, balance untouched.
C3_Witness ==
    /\ lastProc.op = "process_transaction"
    /\ lastProc.transaction_type = "debit"
    /\ lastProc.known
    /\ lastProc.before - lastProc.amount < lastProc.limit
    /\ ~lastProc.result
    /\ lastProc.after = lastProc.before

\* The accepted case of C3: the balance went down by exactly the amount.
C3_WitnessAccepted ==
    /\ lastProc.op = "process_transaction"
    /\ lastProc.transaction_type = "debit"
    /\ lastProc.known
    /\ lastProc.amount > 0
    /\ lastProc.result
    /\ lastProc.after = lastProc.before - lastProc.amount

(***************************************************************************)
(* SpecBank: generate_transactions_for_year of banking-code/transactions.py *)
(* over an accounts table written by banking-code/accounts.py.             *)
(*                                                                         *)
(* Dates are day numbers of the generated year: 1 is 1 January; 0 stands   *)
(* for a date in an earlier year.                                          *)
(***************************************************************************)

\* Days of the year the month loop is followed for.
DaysInYear == 2

\* Iterations of the category loop followed per day.
MaxPurchasesPerDay == 1

\* account_types_individual and account_types_company of generate_accounts.
account_types ==
    {"savings", "current", "cheque", "aspire", "easy", "islamic", "joint",
     "premium", "gold", "platinum", "business"}

\* The account types the explored accounts tables use.
SampleAccountTypes == {"savings", "premium"}

\* Account ids of the explored tables; the second contains the year.
BankAccountIds == {"ACC0000001", "ACC0002024"}

\* eligible_accounts["account_id"].str.contains(str(year)), for year 2024.
ContainsYear(account_id) == account_id = "ACC0002024"

\* opening_date: random_date(max(opening_start, date_of_entry), opening_end),
\* from an earlier year up to 31 December of the year.
OpeningDates == {0} \cup (1 .. DaysInYear)

\* occupation of the account's customer.
Occupations == {"Employed", "Unemployed"}

\* The explored accounts tables: one account of each occupation.
OccupationOf(account_id) ==
    IF account_id = "ACC0000001" THEN "Unemployed" ELSE "Employed"

\* Rows of the accounts (merged with customers) table.
AccountRows ==
    [account_type : SampleAccountTypes \cap account_types,
     opening_date : OpeningDates,
     occupation   : Occupations]

\* A row of loan_payment_transactions / debit_order_transactions: both
\* generators write debit_credit "Debit".
ScheduledRows(category) ==
    [account_id   : {"ACC0002024"},
     amount       : {300},
     debit_credit : {"Debit"},
     day          : 1 .. DaysInYear,
     category     : {category}]

\* Tables of at most one row.
AtMostOneRow(rows) == {<< >>} \cup {<<r>> : r \in rows}

\* np.maximum(100, np.random.uniform(200, 8000, n_accounts))
DepositAmounts == {200, 8000}

\* np.random.uniform(500, 15000)
EstimatedBalances == {500}

\* calculate_transaction_amount: max(10, ...)
PurchaseAmounts == {10, 2000}

\* max_amount = current_balance - overdraft_limit - 20
PurchaseMargin == 20

\* if max_amount < 10: continue
MinPurchase == 10

\* balance_tracker.process_transaction(customer['account_id'], 350, 'credit')
GrantAmount == 350

NewAccounts == {a \in DOMAIN accounts_df : ContainsYear(a)}
ExistingAccounts == {a \in DOMAIN accounts_df : ~ContainsYear(a)}

\* The loan-payment and debit-order rows loaded for the year.
ScheduledLoaded ==
    {loan_transactions_df[i] : i \in DOMAIN loan_transactions_df}
        \cup {debit_order_transactions_df[i] :
                  i \in DOMAIN debit_order_transactions_df}

\* The rows of a loop over scheduled rows whose process_transaction call
\* changed a balance, in order.  preprocess_scheduled_transactions skips
\* unknown accounts and passes 'debit' or 'credit'; the month loop passes the
\* row's debit_credit as it is.
RECURSIVE BalanceChanges(_, _, _)
BalanceChanges(ab, rows, preprocessing) ==
    IF rows = << >> THEN << >>
    ELSE LET row == Head(rows)
             transaction_type ==
                 IF ~preprocessing THEN row.debit_credit
                 ELSE IF row.debit_credit = "debit" THEN "debit" ELSE "credit"
             after == process_transaction(ab, row.account_id, row.amount,
                                          transaction_type).ab
         IN  (IF after # ab THEN <<row>> ELSE << >>)
                 \o BalanceChanges(after, Tail(rows), preprocessing)

\* times_applied after the rows of changed have each changed a balance.
Applied(changed) ==
    [row \in DOMAIN times_applied |->
        times_applied[row]
            + Cardinality({i \in DOMAIN changed : changed[i] = row})]

\* load_banking_data_for_year, load_existing_transactions, BalanceTracker().
BankInit ==
    /\ LaterIdle
    /\ accounts_df \in {t \in [BankAccountIds -> AccountRows] :
                          \A a \in BankAccountIds : t[a].occupation = OccupationOf(a)}
    /\ loan_transactions_df \in AtMostOneRow(ScheduledRows("loan payment"))
    /\ debit_order_transactions_df \in AtMostOneRow(ScheduledRows("debit order"))
    /\ bank_pc = "initial_deposits"
    /\ single_date = 1
    /\ purchases_today = 0
    /\ initial_deposits = {}
    /\ transactions = {}
    /\ times_applied = [row \in ScheduledLoaded |-> 0]
    /\ account_balances = << >>
    /\ lastCan = NoCan
    /\ lastProc = NoProc
    /\ nCalls = 0
    /\ ClaimsIdle
    /\ BookingsIdle

\* The tracker after initialize_account_balance for every id of ids, each
\* with the account_type of its row and the balance bal[id].
RECURSIVE InitializeAll(_, _, _)
InitializeAll(ab, ids, bal) ==
    IF ids = {} THEN ab
    ELSE LET id == CHOOSE x \in ids : TRUE
         IN  InitializeAll(
                 initialize_account_balance(ab, id, accounts_df[id].account_type, bal[id]),
                 ids \ {id}, bal)

\* create_initial_deposits for the new accounts; the table goes to a file of
\* the temp directory, which the end of the run removes.
CreateInitialDeposits ==
    /\ bank_pc = "initial_deposits"
    /\ IF NewAccounts # {}
       THEN \E amount \in [NewAccounts -> DepositAmounts] :
               /\ account_balances' = InitializeAll(account_balances, NewAccounts, amount)
               /\ initial_deposits' =
                      {[account_id |-> a, day |-> 1, category |-> "initial deposit"] :
                          a \in NewAccounts}
       ELSE UNCHANGED <<account_balances, initial_deposits>>
    /\ bank_pc' = "existing_accounts"
    /\ UNCHANGED <<accounts_df, loan_transactions_df, debit_order_transactions_df,
                   single_date, purchases_today, transactions, times_applied, notBank>>

\* The loop over existing_accounts: an estimated balance each.
InitializeExistingAccounts ==
    /\ bank_pc = "existing_accounts"
    /\ \E estimated_balance \in [ExistingAccounts -> EstimatedBalances] :
          account_balances' =
              InitializeAll(account_balances, ExistingAccounts, estimated_balance)
    /\ bank_pc' = "preprocess"
    /\ UNCHANGED <<accounts_df, loan_transactions_df, debit_order_transactions_df,
                   single_date, purchases_today, initial_deposits, transactions,
                   times_applied, notBank>>

\* The loop of preprocess_scheduled_transactions over the sorted rows.
RECURSIVE PreprocessRows(_, _)
PreprocessRows(ab, rows) ==
    IF rows = << >> THEN ab
    ELSE LET row == Head(rows)
             next == IF row.account_id \notin DOMAIN ab
                     THEN ab
                     ELSE IF row.debit_credit = "debit"
                          THEN process_transaction(ab, row.account_id, row.amount, "debit").ab
                          ELSE process_transaction(ab, row.account_id, row.amount, "credit").ab
         IN  PreprocessRows(next, Tail(rows))

\* combined_scheduled.sort_values('transaction_datetime'): the orders of the
\* loaded rows by day; rows of one day come in the order of their times.
SortedScheduled ==
    LET both == loan_transactions_df \o debit_order_transactions_df
        swap == debit_order_transactions_df \o loan_transactions_df
        Sorted(q) == \A i \in 1 .. Len(q) - 1 : q[i].day <= q[i + 1].day
    IN  {q \in {both, swap} : Sorted(q)}

\* preprocess_scheduled_transactions(balance_tracker, loans, debit orders)
PreprocessScheduledTransactions ==
    /\ bank_pc = "preprocess"
    /\ \E q \in SortedScheduled :
          /\ account_balances' = PreprocessRows(account_balances, q)
          /\ times_applied' = Applied(BalanceChanges(account_balances, q, TRUE))
    /\ bank_pc' = "daily_loans"
    /\ UNCHANGED <<accounts_df, loan_transactions_df, debit_order_transactions_df,
                   single_date, purchases_today, initial_deposits, transactions,
                   notBank>>

\* for _, row in daily.iterrows(): process_transaction(account, amount, debit_credit)
RECURSIVE ProcessDailyRows(_, _)
ProcessDailyRows(ab, rows) ==
    IF rows = << >> THEN ab
    ELSE LET row == Head(rows)
         IN  ProcessDailyRows(
                 process_transaction(ab, row.account_id, row.amount, row.debit_credit).ab,
                 Tail(rows))

\* df[df['transaction_date'] == date_str]
RowsOfDay(df, day) == SelectSeq(df, LAMBDA row : row.day = day)

\* The rows of a table as rows of the output.
OutputRows(rows) ==
    {[account_id |-> rows[i].account_id, day |-> rows[i].day,
      category |-> rows[i].category] : i \in DOMAIN rows}

\* generate_transactions_for_month: the day's loan payments.
ProcessDailyLoans ==
    /\ bank_pc = "daily_loans"
    /\ LET daily_loans == RowsOfDay(loan_transactions_df, single_date)
       IN  /\ account_balances' = ProcessDailyRows(account_balances, daily_loans)
           /\ transactions' = transactions \cup OutputRows(daily_loans)
           /\ times_applied' =
                  Applied(BalanceChanges(account_balances, daily_loans, FALSE))
    /\ bank_pc' = "daily_debit_orders"
    /\ UNCHANGED <<accounts_df, loan_transactions_df, debit_order_transactions_df,
                   single_date, purchases_today, initial_deposits, notBank>>

\* generate_transactions_for_month: the day's debit orders.
ProcessDailyDebitOrders ==
    /\ bank_pc = "daily_debit_orders"
    /\ LET daily_debit_orders == RowsOfDay(debit_order_transactions_df, single_date)
       IN  /\ account_balances' = ProcessDailyRows(account_balances, daily_debit_orders)
           /\ transactions' = transactions \cup OutputRows(daily_debit_orders)
           /\ times_applied' =
                  Applied(BalanceChanges(account_balances, daily_debit_orders, FALSE))
    /\ bank_pc' = "grants"
    /\ UNCHANGED <<accounts_df, loan_transactions_df, debit_order_transactions_df,
                   single_date, purchases_today, initial_deposits, notBank>>

\* The credits of the grant loop, one per account of an unemployed customer.
RECURSIVE CreditAll(_, _, _)
CreditAll(ab, ids, amount) ==
    IF ids = {} THEN ab
    ELSE LET id == CHOOSE x \in ids : TRUE
         IN  CreditAll(process_transaction(ab, id, amount, "credit").ab,
                       ids \ {id}, amount)

\* generate_transactions_for_month: the social grants of days 1 to 5.
GovernmentGrants ==
    /\ bank_pc = "grants"
    /\ LET unemployed_customers ==
               {a \in DOMAIN accounts_df : accounts_df[a].occupation = "Unemployed"}
       IN  IF 1 <= single_date /\ single_date <= 5 /\ unemployed_customers # {}
           THEN /\ account_balances' =
                       CreditAll(account_balances, unemployed_customers, GrantAmount)
                /\ transactions' = transactions \cup
                       {[account_id |-> a, day |-> single_date,
                         category |-> "government grant"] : a \in unemployed_customers}
           ELSE UNCHANGED <<account_balances, transactions>>
    /\ bank_pc' = "categories"
    /\ UNCHANGED <<accounts_df, loan_transactions_df, debit_order_transactions_df,
                   single_date, purchases_today, initial_deposits, times_applied, notBank>>

\* One iteration of the loop of generate_category_transactions: a sampled
\* account, a drawn amount, the clamp to the available funds, the debit.
GenerateCategoryTransaction ==
    /\ bank_pc = "categories"
    /\ purchases_today < MaxPurchasesPerDay
    /\ \E a \in DOMAIN accounts_df, drawn \in PurchaseAmounts :
          LET short == ~can_transact(account_balances, a, drawn)
              max_amount == get_balance(account_balances, a)
                              - account_balances[a].overdraft_limit - PurchaseMargin
              amount == IF short
                        THEN (IF max_amount < drawn THEN max_amount ELSE drawn)
                        ELSE drawn
              skipped == short /\ max_amount < MinPurchase
              r == process_transaction(account_balances, a, amount, "debit")
          IN  IF skipped
              THEN UNCHANGED <<account_balances, transactions>>
              ELSE /\ account_balances' = r.ab
                   /\ transactions' =
                          IF r.ok
                          THEN transactions \cup
                                   {[account_id |-> a, day |-> single_date,
                                     category |-> "purchase"]}
                          ELSE transactions
    /\ purchases_today' = purchases_today + 1
    /\ UNCHANGED <<accounts_df, loan_transactions_df, debit_order_transactions_df,
                   bank_pc, single_date, initial_deposits, times_applied, notBank>>

\* The end of one day of the month loop.
NextDay ==
    /\ bank_pc = "categories"
    /\ single_date' = IF single_date < DaysInYear THEN single_date + 1 ELSE single_date
    /\ bank_pc' = IF single_date < DaysInYear THEN "daily_loans" ELSE "done"
    /\ purchases_today' = 0
    /\ UNCHANGED <<accounts_df, loan_transactions_df, debit_order_transactions_df,
                   account_balances, initial_deposits, transactions, times_applied, notBank>>

BankNext ==
    \/ CreateInitialDeposits
    \/ InitializeExistingAccounts
    \/ PreprocessScheduledTransactions
    \/ ProcessDailyLoans
    \/ ProcessDailyDebitOrders
    \/ GovernmentGrants
    \/ GenerateCategoryTransaction
    \/ NextDay

SpecBank == BankInit /\ [][BankNext]_vars

\* C4: when the transaction generator initialises an account, the overdraft
\* floor recorded for it is the limit configured for the account_type value
\* of its row of the accounts table.
C4_FloorKeyedByAccountType ==
    \A a \in DOMAIN account_balances :
        /\ accounts_df[a].account_type \in DOMAIN overdraft_limits
        /\ account_balances[a].overdraft_limit
               = overdraft_limits[accounts_df[a].account_type]

\* C6: no transaction recorded against an account (initial deposit,
\* purchase, grant, debit-order transaction, loan payment) is dated earlier
\* than the account's opening_date.  Stated for the rows that reach the
\* monthly files; the initial-deposit table, dated 1 January for every new
\* account, is removed with the temp directory at the end of the year.
C6_NoTransactionBeforeOpening ==
    \A t \in transactions :
        t.day >= accounts_df[t.account_id].opening_date

\* C18: every debit-order transaction and every loan payment that the
\* transaction generator applies to the balance tracker is processed as a
\* debit: the step lowers the balance or leaves it (refused), and never
\* raises it.
C18_ScheduledRowsNeverRaiseBalance ==
    [][(bank_pc \in {"preprocess", "daily_loans", "daily_debit_orders"}
           => (\A a \in DOMAIN account_balances :
                  account_balances'[a].balance <= account_balances[a].balance))]_vars

\* C19: each loan-payment or debit-order row loaded for the year changes its
\* account's tracked balance exactly once during
\* generate_transactions_for_year: never more than once, and once by the end
\* of the year.
C19_EachScheduledRowAppliedOnce ==
    \A row \in DOMAIN times_applied :
        /\ times_applied[row] <= 1
        /\ bank_pc = "done" => times_applied[row] = 1

(***************************************************************************)
(* SpecClaims: insurance code/claims.py over a policies table written by   *)
(* insurance code/policy_information.py.                                   *)
(*                                                                         *)
(* Amounts are whole rand.  A share is held in percent (57 is 0.57).  A    *)
(* value that Python may hold as None, as NaN or as a number is a record   *)
(* [kind, value].  The table holds one policy; what the rest of the table  *)
(* contributes, the dtype of its columns, is drawn with it.                *)
(***************************************************************************)

\* The longest range(num_claims) explored.
MaxClaimsPerPolicy == 2

None == [kind |-> "None", value |-> 0]
NaN == [kind |-> "NaN", value |-> 0]
Num(v) == [kind |-> "num", value |-> v]

\* Python's truth value of None, of a float NaN and of a number.
Truthy(x) == x.kind = "NaN" \/ (x.kind = "num" /\ x.value # 0)

\* Python's x > n for a float x: False when x is NaN.
GreaterThan(x, n) == x.kind = "num" /\ x.value > n

MinOf(a, b) == IF a < b THEN a ELSE b
MaxOf(a, b) == IF a > b THEN a ELSE b
SetMin(S) == CHOOSE x \in S : \A y \in S : x <= y
SetMax(S) == CHOOSE x \in S : \A y \in S : x >= y

\* np.clip(x, a_min, a_max) is minimum(maximum(x, a_min), a_max).
Clip(x, a_min, a_max) == MinOf(MaxOf(x, a_min), a_max)

POLICY_TYPES ==
    [Life       |-> [has_xol |-> TRUE,  reinsurance_threshold |-> 1000000],
     Health     |-> [has_xol |-> TRUE,  reinsurance_threshold |-> 500000],
     Car        |-> [has_xol |-> FALSE, reinsurance_threshold |-> 250000],
     Home       |-> [has_xol |-> TRUE,  reinsurance_threshold |-> 750000],
     Travel     |-> [has_xol |-> FALSE, reinsurance_threshold |-> 100000],
     Commercial |-> [has_xol |-> TRUE,  reinsurance_threshold |-> 500000]]

COVERAGE_LIMITS ==
    [Life       |-> [min |-> 100000, max |-> 10000000],
     Health     |-> [min |-> 50000,  max |-> 5000000],
     Car        |-> [min |-> 50000,  max |-> 2000000],
     Home       |-> [min |-> 200000, max |-> 10000000],
     Travel     |-> [min |-> 10000,  max |-> 1000000],
     Commercial |-> [min |-> 500000, max |-> 50000000]]

DEDUCTIBLE_OPTIONS ==
    [Life       |-> {0, 5000, 10000, 25000},
     Health     |-> {1000, 2000, 5000, 10000, 20000},
     Car        |-> {2500, 5000, 7500, 10000, 15000},
     Home       |-> {5000, 10000, 15000, 25000, 50000},
     Travel     |-> {500, 1000, 2000, 5000},
     Commercial |-> {10000, 25000, 50000, 100000, 250000}]

CLAIM_SETTINGS ==
    [Life       |-> [max_claims |-> 1,
                     claim_types |-> {"Death", "Disability",
                                      "Critical Illness", "Terminal Illness"}],
     Health     |-> [max_claims |-> 4,
                     claim_types |-> {"Hospitalization", "Surgery", "Outpatient",
                                      "Chronic Condition", "Emergency"}],
     Car        |-> [max_claims |-> 3,
                     claim_types |-> {"Collision", "Theft", "Vandalism",
                                      "Accident", "Glass Damage"}],
     Home       |-> [max_claims |-> 2,
                     claim_types |-> {"Fire", "Theft", "Water Damage",
                                      "Structural Damage", "Storm Damage"}],
     Travel     |-> [max_claims |-> 3,
                     claim_types |-> {"Trip Cancellation", "Medical Emergency",
                                      "Lost Luggage", "Delay", "Travel Accident"}],
     Commercial |-> [max_claims |-> 2,
                     claim_types |-> {"Property Damage", "Liability",
                                      "Business Interruption", "Cyber Incident",
                                      "Equipment Breakdown"}]]

\* The policy types and claim types explored: one type without a settlement
\* factor, the two with one, and the one that has Vandalism claims.
SamplePolicyTypes == {"Life", "Health", "Car", "Travel"}
SampleClaimTypes ==
    {"Death", "Hospitalization", "Collision", "Vandalism", "Trip Cancellation"}

\* The cap on a Vandalism claim and on its settlement.
VandalismCap == 20000

\* The amount above which a claim is an unusually large one.
LargeClaim == 50000

\* coverage = max(min_coverage, min(coverage, max_coverage)): the lowest
\* coverage of the type, one below and one above the reinsurance threshold.
CoverageSamples(policy_type) ==
    LET threshold == POLICY_TYPES[policy_type].reinsurance_threshold IN
    {c \in {COVERAGE_LIMITS[policy_type].min,
            (threshold * 9) \div 10, (threshold * 12) \div 10} :
        /\ c >= COVERAGE_LIMITS[policy_type].min
        /\ c <= COVERAGE_LIMITS[policy_type].max}

\* np.random.choice(deductible_info["options"]): the lowest and the highest.
DeductibleSamples(policy_type) ==
    {SetMin(DEDUCTIBLE_OPTIONS[policy_type]),
     SetMax(DEDUCTIBLE_OPTIONS[policy_type])}

\* round(min(0.9, beta.rvs(..., loc=0.4, scale=0.5)), 2), in percent.
ShareSamples == {40, 90}

\* int(norm.rvs(loc=threshold * 0.85, scale=threshold * 0.1)): the mean.
RetentionSamples(threshold) == {(threshold * 85) \div 100}

\* policy_information.py, determine_xol_and_reinsurance: the reinsurance
\* columns it can return for a policy.  Only a policy whose coverage is above
\* 0.8 of the threshold is reinsured; Car and Travel have no XOL.
determine_xol_and_reinsurance(policy_type, coverage_amount) ==
    LET policy_config == POLICY_TYPES[policy_type]
        threshold == policy_config.reinsurance_threshold
        unreinsured == {[Reinsurance_Type |-> "None",
                         Reinsurance_Share |-> None,
                         XOL_Retention_Amount |-> None]}
        xol == {[Reinsurance_Type |-> "XOL",
                 Reinsurance_Share |-> None,
                 XOL_Retention_Amount |-> Num(r)] :
                    r \in RetentionSamples(threshold)}
        proportional == {[Reinsurance_Type |-> "Proportional",
                          Reinsurance_Share |-> Num(sh),
                          XOL_Retention_Amount |-> None] : sh \in ShareSamples}
    IN  IF coverage_amount * 10 > threshold * 8
        THEN unreinsured \cup proportional
             \cup (IF policy_config.has_xol THEN xol ELSE {})
        ELSE unreinsured

\* pd.DataFrame(all_policies) and the parquet round trip: a None in a column
\* that holds a number in some row is read back as NaN; in a column of None
\* only it stays None.
AsColumnValue(x, column_has_number) ==
    IF x.kind = "None" /\ column_has_number THEN NaN ELSE x

\* Loading the two parquet files; the claims list starts empty.
ClaimsInit ==
    /\ LaterIdle
    /\ \E policy_type \in SamplePolicyTypes :
       \E coverage \in CoverageSamples(policy_type),
          deductible \in DeductibleSamples(policy_type) :
       \E r \in determine_xol_and_reinsurance(policy_type, coverage),
          shares \in BOOLEAN, retentions \in BOOLEAN :
            df_policies =
              <<[Policy_Type |-> policy_type,
                 Coverage_Amount |-> coverage,
                 Deductible_Amount |-> deductible,
                 Reinsurance_Type |-> r.Reinsurance_Type,
                 Reinsurance_Share |-> AsColumnValue(r.Reinsurance_Share, shares),
                 XOL_Retention_Amount |->
                     AsColumnValue(r.XOL_Retention_Amount, retentions)]>>
    /\ claims = << >>
    /\ claims_pc = "policy"
    /\ num_claims = 0
    /\ TrackerIdle
    /\ BankIdle
    /\ BookingsIdle

determine_reinsurance_type(coverage, reinsurance_threshold, reinsurance_share, xol_retention) ==
    IF Truthy(xol_retention) /\ coverage > reinsurance_threshold
    THEN "XOL"
    ELSE IF Truthy(reinsurance_share) /\ GreaterThan(reinsurance_share, 0)
    THEN "Proportional"
    ELSE "None"

\* What amount_dist draws, as a whole number: below every deductible, half
\* the scale, and twice the scale (lognorm, gamma and expon have no upper
\* bound).
DrawnAmounts(scale) == {400, scale \div 2, 2 * scale}

claim_amount_unclipped(drawn, coverage, deductible, claim_type) == drawn

\* scale = coverage - deductible
\* claim_amount = int(np.clip(drawn, 0, min(scale, 20000 if Vandalism else scale)))
claim_amount(drawn, coverage, deductible, claim_type) ==
    LET scale == coverage - deductible IN
    Clip(drawn, 0,
         MinOf(scale, IF claim_type = "Vandalism" THEN VandalismCap ELSE scale))

\* detect_fraud_indicators: whether the list it returns can be non-empty.  A
\* large claim is always flagged; any claim can be flagged by the draws.
FraudIndicators(policy_type, claim_type, amount) ==
    IF amount > LargeClaim /\ policy_type # "Car" /\ claim_type # "Vandalism"
    THEN {TRUE}
    ELSE BOOLEAN

\* random.uniform(0.5, 0.8), in percent: the two ends.
FraudFactors == {50, 80}

\* random.uniform(0.8, 0.95) for Health, random.uniform(0.7, 0.9) for Travel,
\* in percent: the two ends.  100 where the code applies no factor.
TypeFactors(policy_type) ==
    IF policy_type = "Health" THEN {80, 95}
    ELSE IF policy_type = "Travel" THEN {70, 90}
    ELSE {100}

\* int(x * f1 / 100 * f2 / 100), exactly, with no intermediate value above
\* 32 bits.
TwoFactors(x, f1, f2) ==
    LET hundredths == x * f1
        a == (hundredths \div 100) * f2
        b == (hundredths % 100) * f2
    IN  (a \div 100) + (((a % 100) * 100 + b) \div 10000)

calculate_settlement_unfloored(amount, deductible, coverage, status, fraud_indicators, policy_type, claim_type, fraud_factor, type_factor) ==
    IF status # "Approved"
    THEN (IF status = "Rejected" THEN Num(0) ELSE None)
    ELSE LET capped == MinOf(amount - deductible, coverage)
             f1 == IF fraud_indicators THEN fraud_factor ELSE 100
         IN  IF policy_type \in {"Health", "Travel"}
             THEN Num(TwoFactors(capped, f1, type_factor))
             ELSE IF claim_type = "Vandalism"
             THEN Num(MinOf((capped * f1) \div 100, VandalismCap))
             ELSE Num((capped * f1) \div 100)

\* The factors multiply a float; int() truncates the product at the end.
calculate_settlement(amount, deductible, coverage, status, fraud_indicators, policy_type, claim_type, fraud_factor, type_factor) ==
    IF status # "Approved"
    THEN (IF status = "Rejected" THEN Num(0) ELSE None)
    ELSE LET capped == MinOf(MaxOf(0, amount - deductible), coverage)
             f1 == IF fraud_indicators THEN fraud_factor ELSE 100
         IN  IF policy_type \in {"Health", "Travel"}
             THEN Num(TwoFactors(capped, f1, type_factor))
             ELSE IF claim_type = "Vandalism"
             THEN Num(MinOf((capped * f1) \div 100, VandalismCap))
             ELSE Num((capped * f1) \div 100)

calculate_reinsurance_settlement_from_ground(amount, settlement, reinsurance_type, reinsurance_share, xol_retention) ==
    IF ~Truthy(settlement) THEN None
    ELSE IF reinsurance_type = "Proportional" /\ Truthy(reinsurance_share)
    THEN Num((settlement.value * reinsurance_share.value) \div 100)
    ELSE IF reinsurance_type = "XOL" /\ Truthy(xol_retention)
    THEN Num(settlement.value)
    ELSE None

calculate_reinsurance_settlement(amount, settlement, reinsurance_type, reinsurance_share, xol_retention) ==
    IF ~Truthy(settlement) THEN None
    ELSE IF reinsurance_type = "Proportional" /\ Truthy(reinsurance_share)
    THEN Num((settlement.value * reinsurance_share.value) \div 100)
    ELSE IF reinsurance_type = "XOL" /\ Truthy(xol_retention)
    THEN (IF xol_retention.kind = "num" /\ amount > xol_retention.value
          THEN Num(MinOf(settlement.value, amount - xol_retention.value))
          ELSE None)
    ELSE None

\* has_claim is drawn true; num_claims = max(1, binomial(max_claims, 0.5)).
HasClaim ==
    /\ claims_pc = "policy"
    /\ \E n \in 1 .. MinOf(CLAIM_SETTINGS[df_policies[1].Policy_Type].max_claims,
                           MaxClaimsPerPolicy) :
          num_claims' = n
    /\ claims_pc' = "claims"
    /\ UNCHANGED <<df_policies, claims, notClaims>>

\* has_claim is drawn false: continue with the next policy.
NoClaim ==
    /\ claims_pc = "policy"
    /\ claims_pc' = "done"
    /\ UNCHANGED <<df_policies, claims, num_claims, notClaims>>

\* An iteration of range(num_claims) whose claim_date is after CUTOFF_DATE.
ClaimAfterCutoff ==
    /\ claims_pc = "claims"
    /\ num_claims > 0
    /\ num_claims' = num_claims - 1
    /\ claims_pc' = IF num_claims = 1 THEN "done" ELSE "claims"
    /\ UNCHANGED <<df_policies, claims, notClaims>>

\* An iteration of range(num_claims) that appends a claim row.
GenerateClaim ==
    /\ claims_pc = "claims"
    /\ num_claims > 0
    /\ LET policy == df_policies[1]
           policy_type == policy.Policy_Type
           coverage == policy.Coverage_Amount
           deductible == policy.Deductible_Amount
           reinsurance_share == policy.Reinsurance_Share
           xol_retention_amount == policy.XOL_Retention_Amount
           reinsurance_threshold == POLICY_TYPES[policy_type].reinsurance_threshold
       IN  \E claim_type \in CLAIM_SETTINGS[policy_type].claim_types
                                \cap SampleClaimTypes,
              drawn \in DrawnAmounts(coverage - deductible),
              status \in {"Approved", "Rejected", "Pending"},
              fraud_factor \in FraudFactors,
              type_factor \in TypeFactors(policy_type) :
           LET amount == claim_amount(drawn, coverage, deductible, claim_type) IN
           \E fraud_indicators \in FraudIndicators(policy_type, claim_type, amount) :
           LET settlement ==
                   calculate_settlement(amount, deductible, coverage, status,
                                        fraud_indicators, policy_type,
                                        claim_type, fraud_factor, type_factor)
               reinsurance_type ==
                   determine_reinsurance_type(coverage, reinsurance_threshold,
                                              reinsurance_share,
                                              xol_retention_amount)
               reinsurer_settlement ==
                   calculate_reinsurance_settlement(amount, settlement,
                                                    reinsurance_type,
                                                    reinsurance_share,
                                                    xol_retention_amount)
           IN  claims' = Append(claims,
                   [Claim_Type |-> claim_type,
                    Claim_Amount |-> amount,
                    Status |-> status,
                    Settlement_Amount |-> settlement,
                    Reinsurance_Type |-> reinsurance_type,
                    Reinsurer_Settlement |-> reinsurer_settlement])
    /\ num_claims' = num_claims - 1
    /\ claims_pc' = IF num_claims = 1 THEN "done" ELSE "claims"
    /\ UNCHANGED <<df_policies, notClaims>>

ClaimsNext ==
    \/ HasClaim
    \/ NoClaim
    \/ ClaimAfterCutoff
    \/ GenerateClaim

SpecClaims == ClaimsInit /\ [][ClaimsNext]_vars

\* C7: every claim row that carries a settlement amount (a pending claim
\* carries none) has 0 <= Settlement_Amount <= Coverage_Amount -
\* Deductible_Amount of the policy it is filed against.
C7_SettlementWithinCoverage ==
    \A i \in DOMAIN claims :
        LET settlement == claims[i].Settlement_Amount IN
        settlement.kind = "num" =>
            /\ 0 <= settlement.value
            /\ settlement.value <= df_policies[1].Coverage_Amount
                                      - df_policies[1].Deductible_Amount

\* An approved claim for less than the deductible, settled at 0, next to the
\* policy's coverage.
C7_Witness ==
    \E i \in DOMAIN claims :
        /\ claims[i].Status = "Approved"
        /\ claims[i].Claim_Amount < df_policies[1].Deductible_Amount
        /\ claims[i].Settlement_Amount = Num(0)

\* An approved claim above the deductible, settled at a positive amount.
C7_WitnessPaid ==
    \E i \in DOMAIN claims :
        /\ claims[i].Status = "Approved"
        /\ claims[i].Settlement_Amount.kind = "num"
        /\ claims[i].Settlement_Amount.value > 0

\* C8: every generated claim has Claim_Amount <= Coverage_Amount -
\* Deductible_Amount of the policy it is filed against.
C8_ClaimAmountWithinCoverage ==
    \A i \in DOMAIN claims :
        claims[i].Claim_Amount <= df_policies[1].Coverage_Amount
                                     - df_policies[1].Deductible_Amount

\* A claim whose drawn amount was clipped to coverage minus deductible.
C8_Witness ==
    \E i \in DOMAIN claims :
        claims[i].Claim_Amount = df_policies[1].Coverage_Amount
                                    - df_policies[1].Deductible_Amount

\* C9: on a claim under XOL reinsurance (the policy is an XOL policy, or the
\* claim row is labelled XOL) the reinsurer's settlement is absent when the
\* claim amount is at or below the retention, and when present it is at most
\* claim amount minus retention.
C9_XOLPaysOnlyAboveRetention ==
    \A i \in DOMAIN claims :
        LET retention == df_policies[1].XOL_Retention_Amount
            reinsurer == claims[i].Reinsurer_Settlement
        IN  (\/ claims[i].Reinsurance_Type = "XOL"
             \/ df_policies[1].Reinsurance_Type = "XOL") =>
              /\ (retention.kind = "num"
                  /\ claims[i].Claim_Amount <= retention.value)
                     => reinsurer.kind = "None"
              /\ reinsurer.kind = "num" =>
                    /\ retention.kind = "num"
                    /\ reinsurer.value
                          <= claims[i].Claim_Amount - retention.value

\* A paid XOL claim above the retention with a reinsurer's settlement.
C9_Witness ==
    \E i \in DOMAIN claims :
        /\ claims[i].Reinsurance_Type = "XOL"
        /\ df_policies[1].XOL_Retention_Amount.kind = "num"
        /\ claims[i].Claim_Amount > df_policies[1].XOL_Retention_Amount.value
        /\ claims[i].Reinsurer_Settlement.kind = "num"

\* A paid XOL claim at or below the retention.
C9_WitnessBelowRetention ==
    \E i \in DOMAIN claims :
        /\ claims[i].Reinsurance_Type = "XOL"
        /\ df_policies[1].XOL_Retention_Amount.kind = "num"
        /\ claims[i].Claim_Amount <= df_policies[1].XOL_Retention_Amount.value
        /\ Truthy(claims[i].Settlement_Amount)

\* C10: under proportional reinsurance the reinsurer pays the policy's share
\* of every claim.  Stated in its weakest reading: on a policy written as
\* Proportional, every claim that was paid (approved, with a settlement above
\* 0) has a reinsurer's settlement, and it is the share of the settled amount
\* or the share of the claimed amount.
C10_ProportionalShareOfEveryClaim ==
    \A i \in DOMAIN claims :
        LET share == df_policies[1].Reinsurance_Share
            reinsurer == claims[i].Reinsurer_Settlement
        IN  (/\ df_policies[1].Reinsurance_Type = "Proportional"
             /\ claims[i].Status = "Approved"
             /\ claims[i].Settlement_Amount.value > 0) =>
              /\ reinsurer.kind = "num"
              /\ reinsurer.value \in
                    {(claims[i].Settlement_Amount.value * share.value) \div 100,
                     (claims[i].Claim_Amount * share.value) \div 100}

(***************************************************************************)
(* SpecBookings: generate_bookings of airplane code/bookings.py.           *)
(*                                                                         *)
(* A datetime is a number of minutes since 1 January of TARGET_YEAR, 00:00 *)
(* (2024 in __main__, a Monday); a booking made the year before is         *)
(* negative.                                                               *)
(***************************************************************************)

\* The largest target_bookings explored for a flight.
MaxTargetBookings == 1

MinutesPerHour == 60
MinutesPerDay == 24 * MinutesPerHour

DepartureAt(day, hour) == day * MinutesPerDay + hour * MinutesPerHour

\* datetime.weekday(): Monday is 0.
Weekday(t) == (t \div MinutesPerDay) % 7

\* datetime.replace(hour=hour, minute=minute): same calendar day.
ReplaceTime(t, hour, minute) ==
    (t \div MinutesPerDay) * MinutesPerDay + hour * MinutesPerHour + minute

\* The flight schedule: one flight each way between two cities; the flight
\* back departs before the flight out, a day and two days after the Friday
\* one, or eight days after it.
FlightTables ==
    {<<[planning_id |-> "PL0001", origin_city |-> "Johannesburg",
        destination_city |-> "Cape Town", scheduled_departure |-> d1],
       [planning_id |-> "PL0002", origin_city |-> "Cape Town",
        destination_city |-> "Johannesburg", scheduled_departure |-> d2]>> :
        d1 \in {DepartureAt(3, 6), DepartureAt(4, 6)},
        d2 \in {DepartureAt(2, 6), DepartureAt(5, 6), DepartureAt(12, 6)}}

CustomerCities == {"Johannesburg", "Cape Town", "Durban"}

\* (min_days, max_days) of each booking pattern; the same in the three
\* popularity classes, which differ in the probabilities only.
booking_windows ==
    [same_day    |-> [min_days |-> 0,  max_days |-> 1],
     last_minute |-> [min_days |-> 1,  max_days |-> 7],
     normal      |-> [min_days |-> 7,  max_days |-> 30],
     early       |-> [min_days |-> 30, max_days |-> 90],
     very_early  |-> [min_days |-> 90, max_days |-> 180]]

\* The patterns explored: the two nearest to departure and the farthest.
SamplePatterns == {"same_day", "last_minute", "very_early"}

\* np.random.exponential(4), in minutes: no time at all, and four hours.
ExponentialSamples == {0, 4 * MinutesPerHour}

\* np.random.uniform(min_days, max_days), in minutes: the least it can be.
DaysBeforeSamples(pattern) == {booking_windows[pattern].min_days * MinutesPerDay}

\* np.random.randint(8, 18) or np.random.randint(0, 24): the first and the
\* last hour of the day.  np.random.randint(0, 60): the last minute.
HourSamples == {0, 23}
MinuteSamples == {59}

generate_booking_date(scheduled_departure, pattern, exponential, days_before, hour, minute) ==
    IF pattern = "same_day"
    THEN LET hours_before == IF exponential > MinutesPerHour
                             THEN exponential ELSE MinutesPerHour
         IN  scheduled_departure - hours_before
    ELSE ReplaceTime(scheduled_departure - days_before, hour, minute)

\* Every booking_date _generate_booking_date can return for a departure.
BookingDates(scheduled_departure) ==
    {generate_booking_date(scheduled_departure, pattern, exponential,
                           days_before, hour, minute) :
        pattern \in SamplePatterns, exponential \in ExponentialSamples,
        days_before \in UNION {DaysBeforeSamples(q) : q \in SamplePatterns},
        hour \in HourSamples, minute \in MinuteSamples}

\* max_days = 3 if np.random.random() < 0.3 or outbound_date.weekday() >= 4
\* else 14
MaxDaysSamples(outbound_date) ==
    IF Weekday(outbound_date) >= 4 THEN {3} ELSE {3, 14}

FlightRows == {flight_data[i] : i \in DOMAIN flight_data}

find_return_flight_any_date(outbound_flight, max_days) ==
    {f \in FlightRows :
        /\ f.origin_city = outbound_flight.destination_city
        /\ f.destination_city = outbound_flight.origin_city}

\* The flights _find_return_flight can return; none when the set is empty.
find_return_flight(outbound_flight, max_days) ==
    LET outbound_date == outbound_flight.scheduled_departure
        min_return_date == outbound_date + MinutesPerDay
        max_return_date == outbound_date + max_days * MinutesPerDay
    IN  {f \in FlightRows :
            /\ f.origin_city = outbound_flight.destination_city
            /\ f.destination_city = outbound_flight.origin_city
            /\ f.scheduled_departure > outbound_date
            /\ f.scheduled_departure >= min_return_date
            /\ f.scheduled_departure <= max_return_date}

\* _generate_passenger_composition: num_adults + num_children.
PassengerSamples == {1, 2}

BookingsInit ==
    /\ LaterIdle
    /\ flight_data \in FlightTables
    /\ bookings = {}
    /\ bookings_pc = "flight"
    /\ flight_idx = 1
    /\ target_bookings = 0
    /\ current_bookings = 0
    /\ attempts = 0
    /\ TrackerIdle
    /\ BankIdle
    /\ ClaimsIdle

\* The head of the for loop: target_bookings = int(capacity * load factor *
\* overbooking factor), at least 1 for an aircraft of 3 seats or more since
\* the load factor is clipped to 0.40 at least.
StartFlight ==
    /\ bookings_pc = "flight"
    /\ \E n \in 1 .. MaxTargetBookings : target_bookings' = n
    /\ current_bookings' = 0
    /\ attempts' = 0
    /\ bookings_pc' = "while"
    /\ UNCHANGED <<flight_data, bookings, flight_idx, notBookings>>

WhileCondition ==
    current_bookings < target_bookings /\ attempts < target_bookings * 3

\* The while loop ends; the for loop takes the next flight or ends.
EndFlight ==
    /\ bookings_pc = "while"
    /\ ~WhileCondition
    /\ flight_idx' = flight_idx + 1
    /\ bookings_pc' = IF flight_idx = Len(flight_data) THEN "done" ELSE "flight"
    /\ UNCHANGED <<flight_data, bookings, target_bookings, current_bookings,
                   attempts, notBookings>>

\* An iteration that samples a Cape Town customer for a flight out of
\* Johannesburg: continue.
SkipCustomer ==
    /\ bookings_pc = "while"
    /\ WhileCondition
    /\ flight_data[flight_idx].origin_city = "Johannesburg"
    /\ attempts' = attempts + 1
    /\ UNCHANGED <<flight_data, bookings, bookings_pc, flight_idx,
                   target_bookings, current_bookings, notBookings>>

\* An iteration that gets past the customer check: it appends the booking,
\* and the return booking when the trip is a return and a flight is found.
BookFlight ==
    /\ bookings_pc = "while"
    /\ WhileCondition
    /\ LET flight == flight_data[flight_idx] IN
       \E customer_city \in CustomerCities,
          passengers \in PassengerSamples,
          booking_date \in BookingDates(flight.scheduled_departure),
          trip_type \in {"one-way", "return"},
          max_days \in MaxDaysSamples(flight.scheduled_departure) :
        LET total_passengers ==
                IF current_bookings + passengers > target_bookings
                THEN 1 ELSE passengers
            booking == [planning_id |-> flight.planning_id,
                        booking_date |-> booking_date,
                        trip_type |-> trip_type,
                        has_outbound_id |-> FALSE]
            return_flights == find_return_flight(flight, max_days)
        IN  /\ ~(customer_city = "Cape Town"
                 /\ flight.origin_city = "Johannesburg")
            /\ IF \/ current_bookings + total_passengers > target_bookings
                  \/ booking_date >= flight.scheduled_departure
               THEN UNCHANGED <<bookings, current_bookings>>
               ELSE /\ current_bookings' = current_bookings + total_passengers
                    /\ IF trip_type = "return" /\ return_flights # {}
                       THEN \E return_flight \in return_flights :
                              bookings' = bookings \cup
                                {booking,
                                 [planning_id |-> return_flight.planning_id,
                                  booking_date |-> booking_date,
                                  trip_type |-> "return",
                                  has_outbound_id |-> TRUE]}
                       ELSE bookings' = bookings \cup {booking}
    /\ attempts' = attempts + 1
    /\ UNCHANGED <<flight_data, bookings_pc, flight_idx, target_bookings,
                   notBookings>>

BookingsNext ==
    \/ StartFlight
    \/ EndFlight
    \/ SkipCustomer
    \/ BookFlight

SpecBookings == BookingsInit /\ [][BookingsNext]_vars

\* The row of flight_data a planning_id names.
FlightOf(planning_id) ==
    CHOOSE f \in FlightRows : f.planning_id = planning_id

\* C5: every booking row, the return-leg row created with an outbound
\* booking included, has a booking_date strictly earlier than the
\* scheduled_departure of the flight named by its planning_id.
C5_BookedBeforeDeparture ==
    \A b \in bookings :
        b.booking_date < FlightOf(b.planning_id).scheduled_departure

\* A return-leg row and the outbound row it was created with.
C5_Witness ==
    \E b \in bookings, o \in bookings :
        /\ b.has_outbound_id
        /\ ~o.has_outbound_id
        /\ o.trip_type = "return"
        /\ o.booking_date = b.booking_date
        /\ o.planning_id # b.planning_id

\* C17: the bookings generator emits at least one booking row for every
\* scheduled flight it processes: once the loop has moved past a flight, some
\* row of bookings names it.
C17_EveryFlightHasABooking ==
    \A i \in DOMAIN flight_data :
        i < flight_idx =>
            \E b \in bookings : b.planning_id = flight_data[i].planning_id

(***************************************************************************)
(* banking-code/debit_orders.py: generate_debit_orders.                    *)
(*                                                                         *)
(* The script draws the number of orders, then runs one loop over          *)
(* range(num_debit_orders).  An iteration either skips (the account's      *)
(* customer has no row), or appends one order whose target is an external  *)
(* IBAN or another account of accounts_df.  The values the script samples  *)
(* in advance for index i (sampled_accounts, target_accounts,              *)
(* internal_external_randoms) are read once, at iteration i, and are drawn *)
(* here when they are read.                                                *)
(***************************************************************************)

\* random.randint(3219, 8329) at line 75, scaled down: the loop runs once
\* for every unit, so the two ends of the range are kept small.
MinDebitOrders == 2
MaxDebitOrders == 3

DebitAccountRow(a, c) == [account_id |-> a, customer_id |-> c]

\* accounts_df after concat and drop_duplicates(subset=['account_id']).
DebitAccountTables ==
    { <<DebitAccountRow("ACC1", "CUST1")>>,
      <<DebitAccountRow("ACC1", "CUST1"), DebitAccountRow("ACC2", "CUST2")>>,
      <<DebitAccountRow("ACC1", "CUST1"), DebitAccountRow("ACC2", "CUST2"),
        DebitAccountRow("ACC3", "CUST3")>> }

\* The keys of customers_dict: the customer files are read independently of
\* the account files, so a customer of an account may have no row.
CustomerKeySets == { {"CUST1", "CUST2", "CUST3"}, {"CUST1", "CUST2"} }

Rows(df) == {df[k] : k \in DOMAIN df}

DebitOrdersInit ==
    /\ TrackerIdle /\ BankIdle /\ ClaimsIdle /\ BookingsIdle
    /\ CustomersIdle /\ FlightsIdle /\ PricesIdle /\ LoadIdle /\ ScheduleIdle /\ FinalIdle
    /\ debit_accounts_df \in DebitAccountTables
    /\ customers_dict \in CustomerKeySets
    /\ num_debit_orders \in MinDebitOrders .. MaxDebitOrders
    /\ debit_pc = "for"
    /\ debit_i = 0
    /\ source_account_id = "none"
    /\ target_account = NoAccountRow
    /\ resampled = NoAccountRow
    /\ while_turns = 0
    /\ debit_orders = << >>

DebitOrderRow(i, source, account_to) == [debit_order_id |-> i + 1, account_id |-> source, account_to |-> account_to]

\* Lines 147-153: the customer of sampled_accounts.iloc[i] is not a key of
\* customers_dict; continue, nothing is appended.
SkipUnknownCustomer ==
    /\ debit_pc = "for"
    /\ debit_i < num_debit_orders
    /\ \E account \in Rows(debit_accounts_df) :
          /\ account.customer_id \notin customers_dict
          /\ debit_i' = debit_i + 1
    /\ UNCHANGED <<debit_accounts_df, customers_dict, num_debit_orders, debit_pc,
                   source_account_id, target_account, resampled, while_turns,
                   debit_orders>>
    /\ UNCHANGED notDebitOrders

\* Lines 253-269: internal_external_randoms[i] >= 0.65, the target is an IBAN.
ExternalOrder ==
    /\ debit_pc = "for"
    /\ debit_i < num_debit_orders
    /\ \E account \in Rows(debit_accounts_df) :
          /\ account.customer_id \in customers_dict
          /\ debit_orders' = Append(debit_orders,
                                    DebitOrderRow(debit_i, account.account_id, "IBAN"))
    /\ debit_i' = debit_i + 1
    /\ UNCHANGED <<debit_accounts_df, customers_dict, num_debit_orders, debit_pc,
                   source_account_id, target_account, resampled, while_turns>>
    /\ UNCHANGED notDebitOrders

\* Lines 246-247: internal_external_randoms[i] < 0.65, the target starts as
\* target_accounts.iloc[i].  accounts_df.sample(1, random_state=seed_int + i)
\* is a function of its random_state: for this i it yields one row, the
\* same at every call, whichever row that is.
InternalOrder ==
    /\ debit_pc = "for"
    /\ debit_i < num_debit_orders
    /\ \E account \in Rows(debit_accounts_df) :
          /\ account.customer_id \in customers_dict
          /\ source_account_id' = account.account_id
    /\ target_account' \in Rows(debit_accounts_df)
    /\ resampled' \in Rows(debit_accounts_df)
    /\ while_turns' = 0
    /\ debit_pc' = "while"
    /\ UNCHANGED <<debit_accounts_df, customers_dict, num_debit_orders, debit_i,
                   debit_orders>>
    /\ UNCHANGED notDebitOrders

\* Lines 249-250: one turn of the while loop.
Resample ==
    /\ debit_pc = "while"
    /\ target_account.account_id = source_account_id
    /\ target_account' = resampled
    /\ while_turns' = (while_turns + 1) % 2
    /\ UNCHANGED <<debit_accounts_df, customers_dict, num_debit_orders, debit_pc,
                   debit_i, source_account_id, resampled, debit_orders>>
    /\ UNCHANGED notDebitOrders

\* Lines 251-269: the loop condition is false; the order is appended.
AppendInternalOrder ==
    /\ debit_pc = "while"
    /\ target_account.account_id # source_account_id
    /\ debit_orders' = Append(debit_orders,
                              DebitOrderRow(debit_i, source_account_id, target_account.account_id))
    /\ debit_i' = debit_i + 1
    /\ debit_pc' = "for"
    /\ UNCHANGED <<debit_accounts_df, customers_dict, num_debit_orders,
                   source_account_id, target_account, resampled, while_turns>>
    /\ UNCHANGED notDebitOrders

\* Lines 271-283: range(num_debit_orders) is exhausted; the table is written.
WriteDebitOrders ==
    /\ debit_pc = "for"
    /\ debit_i = num_debit_orders
    /\ debit_pc' = "done"
    /\ UNCHANGED <<debit_accounts_df, customers_dict, num_debit_orders, debit_i,
                   source_account_id, target_account, resampled, while_turns,
                   debit_orders>>
    /\ UNCHANGED notDebitOrders

DebitOrdersNext ==
    \/ SkipUnknownCustomer
    \/ ExternalOrder
    \/ InternalOrder
    \/ Resample
    \/ AppendInternalOrder
    \/ WriteDebitOrders

SpecDebitOrders == DebitOrdersInit /\ [][DebitOrdersNext]_vars

\* The script is one thread that keeps executing while a statement is left.
FairSpecDebitOrders == SpecDebitOrders /\ WF_vars(DebitOrdersNext)

\* C16: every script runs to completion on every input; in particular the
\* loop that re-samples the target account of a debit order until it differs
\* from the source account ends, so the script reaches the point where it
\* writes its table.
C16_DebitOrdersRunToCompletion == <>(debit_pc = "done")

\* C13: the number of rows written for a year lies within the bounds the
\* count was drawn from: the debit-order table that is written holds at
\* least MinDebitOrders and at most MaxDebitOrders rows.
C13_RowCountWithinConfiguredBounds ==
    debit_pc = "done" =>
        /\ Len(debit_orders) >= MinDebitOrders
        /\ Len(debit_orders) <= MaxDebitOrders

(***************************************************************************)
(* insurance code/customers.py and airplane code/customers.py: the         *)
(* identity number written on a customer row.                              *)
(*                                                                         *)
(* An identity number is a sequence of characters.  (The third customer    *)
(* script, banking-code/customer.py, appends no row: everything after the  *)
(* return of get_realistic_customer_volumes, the call of that function     *)
(* included, is indented inside it, so generate_customer_data returns      *)
(* before any customer is generated.)                                      *)
(***************************************************************************)

\* Rows each script appends in the model.
MaxCustomerRows == 1

DigitChars == <<"0", "1", "2", "3", "4", "5", "6", "7", "8", "9">>

\* str(d) for one decimal digit, and int(c) back.
DigitChar(d) == DigitChars[d + 1]
DigitValue(c) == CHOOSE d \in 0 .. 9 : DigitChars[d + 1] = c

\* f"{n:02d}" and f"{n:04d}".
Format02d(n) == <<DigitChar((n \div 10) % 10), DigitChar(n % 10)>>
Format04d(n) == <<DigitChar((n \div 1000) % 10), DigitChar((n \div 100) % 10), DigitChar((n \div 10) % 10), DigitChar(n % 10)>>

Date(y, m, d) == [year |-> y, month |-> m, day |-> d]

\* dob.strftime('%y%m%d').
strftime_yymmdd(dob) == Format02d(dob.year % 100) \o Format02d(dob.month) \o Format02d(dob.day)

\* The checksum loop of generate_valid_sa_id over first_12: the digits at
\* even 0-based positions are doubled, and 9 is taken off a result above 9.
RECURSIVE LuhnTotal(_, _)
LuhnTotal(first_12, i) ==
    IF i > Len(first_12) THEN 0
    ELSE LET d == DigitValue(first_12[i])
             doubled == IF 2 * d > 9 THEN 2 * d - 9 ELSE 2 * d
         IN  (IF (i - 1) % 2 = 0 THEN doubled ELSE d) + LuhnTotal(first_12, i + 1)

\* generate_valid_sa_id(dob, gender), with the two random draws as arguments.
generate_valid_sa_id(dob, gender_digit, random_digit) ==
    LET first_12 == strftime_yymmdd(dob) \o Format04d(gender_digit) \o <<"0">> \o <<DigitChar(random_digit)>>
        checksum == (10 - (LuhnTotal(first_12, 1) % 10)) % 10
    IN  first_12 \o <<DigitChar(checksum)>>

\* random.randint(0, 4999) if gender == 'F' else random.randint(5000, 9999).
GenderDigitSamples(gender) == IF gender = "F" THEN {0, 4999} ELSE {5000, 9999}

\* Dates of birth the two scripts can draw.
BirthDateSamples == {Date(1990, 1, 5), Date(2001, 12, 31), Date(1985, 7, 15)}

\* ID_PASSPORT_FORMATS['South Africa']['ID']: thirteen digits, each drawn
\* with random.randint(0, 9).  The samples: a number that happens to start
\* with a date of BirthDateSamples, one that starts with another date, and
\* one whose first six digits are no date at all.
ThirteenDigitSamples ==
    { <<"9", "0", "0", "1", "0", "5", "1", "2", "3", "4", "0", "8", "6">>,
      <<"7", "5", "0", "3", "2", "1", "9", "9", "0", "2", "1", "4", "7">>,
      <<"4", "8", "9", "9", "7", "0", "3", "1", "5", "5", "6", "2", "0">> }

\* fake.bothify(text='A#######') and, for the United Kingdom,
\* fake.bothify(text='??######') and nine random digits.
ID_PASSPORT_FORMATS(nationality, id_type) ==
    IF nationality = "South Africa"
    THEN IF id_type = "ID" THEN ThirteenDigitSamples
         ELSE {<<"A", "1", "2", "3", "4", "5", "6", "7">>}
    ELSE IF id_type = "ID" THEN {<<"K", "Q", "9", "0", "0", "1", "0", "5">>}
         ELSE {<<"9", "0", "0", "1", "0", "5", "1", "2", "3">>}

CustomersInit ==
    /\ TrackerIdle /\ BankIdle /\ ClaimsIdle /\ BookingsIdle
    /\ DebitOrdersIdle /\ FlightsIdle /\ PricesIdle /\ LoadIdle /\ ScheduleIdle /\ FinalIdle
    /\ customer_data = {}

RowsOf(script) == {row \in customer_data : row.script = script}

\* insurance code/customers.py, one turn of the loop of generate_insurance_data:
\* every applicant gets generate_valid_sa_id(dob, gender).
GenerateApplicant ==
    /\ Cardinality(RowsOf("insurance")) < MaxCustomerRows
    /\ \E dob \in BirthDateSamples, gender \in {"F", "M"}, random_digit \in {0, 9} :
       \E gender_digit \in GenderDigitSamples(gender) :
          customer_data' = customer_data \cup
              {[script |-> "insurance", Date_of_Birth |-> dob, Nationality |-> "South Africa", ID_Type |-> "ID", ID_Number |-> generate_valid_sa_id(dob, gender_digit, random_digit)]}
    /\ UNCHANGED notCustomers

\* airplane code/customers.py, one turn of the loop of
\* generate_individual_data.
GenerateIndividual ==
    /\ Cardinality(RowsOf("airplane")) < MaxCustomerRows
    /\ \E dob \in BirthDateSamples, nationality \in {"South Africa", "United Kingdom"}, id_type \in {"ID", "Passport"} :
       \E id_number \in ID_PASSPORT_FORMATS(nationality, id_type) :
          customer_data' = customer_data \cup
              {[script |-> "airplane", Date_of_Birth |-> dob, Nationality |-> nationality, ID_Type |-> id_type, ID_Number |-> id_number]}
    /\ UNCHANGED notCustomers

CustomersNext ==
    \/ GenerateApplicant
    \/ GenerateIndividual

SpecCustomers == CustomersInit /\ [][CustomersNext]_vars

\* C11: every South African ID number on a customer or applicant row begins
\* with the YYMMDD digits of the date of birth recorded on the same row.
C11_IdBeginsWithBirthDate ==
    \A row \in customer_data :
        (row.Nationality = "South Africa" /\ row.ID_Type = "ID") =>
            SubSeq(row.ID_Number, 1, 6) = strftime_yymmdd(row.Date_of_Birth)

(***************************************************************************)
(* airplane code/flights.py, run more than once on the same machine.       *)
(*                                                                         *)
(* The script has two sources of randomness.  The module `random` is       *)
(* seeded with 42 at line 8, so its n-th draw is the same in every run.    *)
(* Faker draws from a generator of its own (faker.generator.random, an     *)
(* instance of random.Random created when the package is imported), which  *)
(* random.seed does not touch and which only Faker.seed would seed: it     *)
(* starts every run from operating-system entropy.                         *)
(***************************************************************************)

\* Runs of the script that are compared.
RunsCompared == 2

\* range(7) at line 24.
NumFlights == 7

\* States Faker's generator can start a run in.
EntropySamples == {11, 23, 37, 58}

\* The n-th draw of `random` after random.seed(42), as an index into
\* `options` choices.  The real values come from the Mersenne Twister; what
\* matters here is that they are a function of n alone.
SeededChoice(n, options) == ((5 * n + 3) % options) + 1

\* The n-th draw of Faker's generator when it started from `seed`, as a
\* number below `outcomes`: a function of the start state and n.
FakerDraw(seed, n, outcomes) == (seed + 7 * n) % outcomes

Capacities == <<150, 180, 200, 220, 250, 280, 300>>
FlightTypes == <<"Domestic", "International">>
AircraftModels == <<"Boeing 737-800", "Airbus A330-300", "Boeing 737-900", "Boeing 777-300ER", "Embraer E190", "Airbus A321neo", "Bombardier Q400">>

\* The patterns '??###' and 'N###??' have 26 * 26 * 1000 outcomes each, and
\* 2009-01-01 .. 2018-12-31 is 3652 days.
BothifyOutcomes == 676000
DateAddedOutcomes == 3652

\* The dict built for index i (lines 12-23), in the order its values are
\* evaluated: three Faker draws and three draws of `random`.
FlightRow(i, seed) ==
    [ Flight_ID |-> i + 1,
      Flight_Name |-> FakerDraw(seed, 3 * i, BothifyOutcomes),
      Date_Added |-> FakerDraw(seed, 3 * i + 1, DateAddedOutcomes),
      Capacity |-> Capacities[SeededChoice(3 * i, Len(Capacities))],
      Flight_Type |-> FlightTypes[SeededChoice(3 * i + 1, Len(FlightTypes))],
      Aircraft_Model |-> AircraftModels[SeededChoice(3 * i + 2, Len(AircraftModels))],
      Aircraft_Registration |-> FakerDraw(seed, 3 * i + 2, BothifyOutcomes) ]

FlightsInit ==
    /\ TrackerIdle /\ BankIdle /\ ClaimsIdle /\ BookingsIdle
    /\ DebitOrdersIdle /\ CustomersIdle /\ PricesIdle /\ LoadIdle /\ ScheduleIdle /\ FinalIdle
    /\ flights_pc = "start"
    /\ faker_seed = 0
    /\ flights = << >>
    /\ flights_parquet = << >>

\* Lines 1-8: the imports, Faker() and random.seed(42) of one run.
StartFlightsRun ==
    /\ flights_pc = "start"
    /\ Len(flights_parquet) < RunsCompared
    /\ faker_seed' \in EntropySamples
    /\ flights' = << >>
    /\ flights_pc' = "generate"
    /\ UNCHANGED flights_parquet
    /\ UNCHANGED notFlights

\* Lines 11-25: one element of the list comprehension.
GenerateFlight ==
    /\ flights_pc = "generate"
    /\ Len(flights) < NumFlights
    /\ flights' = Append(flights, FlightRow(Len(flights), faker_seed))
    /\ UNCHANGED <<flights_pc, faker_seed, flights_parquet>>
    /\ UNCHANGED notFlights

\* Lines 29-34: the table is written and the run ends.
SaveFlights ==
    /\ flights_pc = "generate"
    /\ Len(flights) = NumFlights
    /\ flights_parquet' = Append(flights_parquet, flights)
    /\ flights_pc' = "start"
    /\ UNCHANGED <<faker_seed, flights>>
    /\ UNCHANGED notFlights

FlightsNext ==
    \/ StartFlightsRun
    \/ GenerateFlight
    \/ SaveFlights

SpecFlights == FlightsInit /\ [][FlightsNext]_vars

\* C12: a generator script that sets fixed random seeds writes the same
\* table in every run: any two runs of flights.py produce identical
\* flights tables.
C12_RunsWriteIdenticalTables ==
    \A run1 \in DOMAIN flights_parquet, run2 \in DOMAIN flights_parquet :
        flights_parquet[run1] = flights_parquet[run2]

(***************************************************************************)
(* airplane code/schedules.py: the price of a scheduled flight.            *)
(*                                                                         *)
(* calculate_dynamic_price is a function of its arguments and of its       *)
(* random.uniform draws.  It is applied here to the arguments the two      *)
(* loops of generate_flight_schedule pass it: the base price of the        *)
(* origin's tier, a date of TARGET_YEAR, a departure hour of the route's   *)
(* flight times and a demand factor.  Multipliers are in percent and a     *)
(* price is carried in thousandths of a rand.                              *)
(***************************************************************************)

TARGET_YEAR == 2024

\* AIRPORT_TIERS, lines 103-109.
AIRPORT_TIERS ==
    [ JNB |-> [base_price |-> 650, min_price |-> 500, max_price |-> 1200],
      CPT |-> [base_price |-> 700, min_price |-> 550, max_price |-> 1300],
      DUR |-> [base_price |-> 600, min_price |-> 450, max_price |-> 1100],
      PLZ |-> [base_price |-> 450, min_price |-> 350, max_price |-> 900],
      GRJ |-> [base_price |-> 400, min_price |-> 300, max_price |-> 800] ]

\* AIRPORT_TIERS.get(origin, AIRPORT_TIERS['JNB']).
TierOf(origin) == IF origin \in DOMAIN AIRPORT_TIERS THEN AIRPORT_TIERS[origin] ELSE AIRPORT_TIERS["JNB"]

\* PEAK_HOURS = [(6, 9), (16, 19)]: start <= hour < end.
is_peak_time(hour) == (6 <= hour /\ hour < 9) \/ (16 <= hour /\ hour < 19)

\* The dates of HOLIDAYS_DATA, lines 18-98.
HolidayDates ==
    { Date(2013, 3, 29), Date(2013, 4, 1), Date(2013, 7, 6),
      Date(2014, 4, 18), Date(2014, 4, 21), Date(2014, 7, 5),
      Date(2015, 4, 3), Date(2015, 4, 6), Date(2015, 7, 4),
      Date(2016, 3, 25), Date(2016, 3, 28), Date(2016, 7, 2),
      Date(2017, 4, 14), Date(2017, 4, 17), Date(2017, 7, 1),
      Date(2018, 3, 30), Date(2018, 4, 2), Date(2018, 7, 7) }

is_holiday_or_event(flight_date) == flight_date \in HolidayDates

\* price *= factor, with the factor in percent and the price in thousandths.
Times(price, percent) == (price * percent + 50) \div 100

\* round(price) of a price in thousandths: to the nearest integer, a tie
\* going to the even one.
RoundPrice(price) ==
    LET whole == price \div 1000
        rest == price % 1000
    IN  IF rest > 500 \/ (rest = 500 /\ whole % 2 = 1) THEN whole + 1 ELSE whole

\* random.uniform(low, high): the two ends of the range.
Uniform(low, high) == {low, high}

\* calculate_dynamic_price(base_price, flight_date, departure_time,
\* demand_factor), with its four draws as arguments.
calculate_dynamic_price(base_price, flight_date, hour, demand_factor, peak, holiday, season, noise) ==
    LET price0 == base_price * 1000
        price1 == IF is_peak_time(hour) THEN Times(price0, peak) ELSE price0
        price2 == IF is_holiday_or_event(flight_date) THEN Times(price1, holiday) ELSE price1
        price3 == IF flight_date.month \in {11, 12, 1, 2} THEN Times(price2, season) ELSE price2
        price4 == Times(price3, demand_factor)
        price5 == Times(price4, noise)
    IN  RoundPrice(price5)

\* Origins of routes_df: the five airports of AIRPORT_TIERS and one more.
OriginSamples == {"JNB", "CPT", "DUR", "PLZ", "GRJ", "BFN"}

\* Days of pd.date_range(date(TARGET_YEAR, 1, 1), date(TARGET_YEAR, 12, 31)).
FlightDateSamples == {Date(TARGET_YEAR, 1, 15), Date(TARGET_YEAR, 3, 29), Date(TARGET_YEAR, 6, 1), Date(TARGET_YEAR, 11, 20)}

\* POPULAR_FLIGHT_TIMES (or its default [8, 12, 16]) and OTHER_FLIGHT_TIMES.
PopularHourSamples == {6, 9, 12, 16, 20}
OTHER_FLIGHT_TIMES == {8, 12, 16}

PricesInit ==
    /\ TrackerIdle /\ BankIdle /\ ClaimsIdle /\ BookingsIdle
    /\ DebitOrdersIdle /\ CustomersIdle /\ FlightsIdle /\ LoadIdle /\ ScheduleIdle /\ FinalIdle
    /\ priced = NotPriced

PricedFlight(origin, kind, flight_date, hour, price) == [origin |-> origin, route_kind |-> kind, flight_date |-> flight_date, hour |-> hour, final_price |-> price]

\* Lines 308-309: a flight of a popular route, demand in [0.9, 1.3].
PricePopularFlight ==
    /\ \E origin \in {"JNB", "CPT", "DUR"}, flight_date \in FlightDateSamples, hour \in PopularHourSamples :
       \E demand_factor \in Uniform(90, 130), peak \in Uniform(115, 130), holiday \in Uniform(120, 150), season \in Uniform(110, 125), noise \in Uniform(95, 105) :
          priced' = PricedFlight(origin, "popular", flight_date, hour,
                                 calculate_dynamic_price(TierOf(origin).base_price, flight_date, hour, demand_factor, peak, holiday, season, noise))
    /\ UNCHANGED notPrices

\* Lines 364-365: a flight of another route, demand in [0.8, 1.2].
PriceOtherFlight ==
    /\ \E origin \in OriginSamples, flight_date \in FlightDateSamples, hour \in OTHER_FLIGHT_TIMES :
       \E demand_factor \in Uniform(80, 120), peak \in Uniform(115, 130), holiday \in Uniform(120, 150), season \in Uniform(110, 125), noise \in Uniform(95, 105) :
          priced' = PricedFlight(origin, "other", flight_date, hour,
                                 calculate_dynamic_price(TierOf(origin).base_price, flight_date, hour, demand_factor, peak, holiday, season, noise))
    /\ UNCHANGED notPrices

PricesNext ==
    \/ PricePopularFlight
    \/ PriceOtherFlight

SpecPrices == PricesInit /\ [][PricesNext]_vars

\* C14: every fabricated price is clamped to a floor: no scheduled flight's
\* final price is below the minimum price of its origin's tier, whatever
\* multipliers are drawn.
C14_PriceNeverBelowFloor ==
    priced # NotPriced => priced.final_price >= TierOf(priced.origin).min_price

(***************************************************************************)
(* What three scripts do when an input file is missing:                    *)
(*   banking-code/accounts.py    generate_accounts(year)                   *)
(*   airplane code/bookings.py   generate_airline_bookings(target_year),   *)
(*                               which constructs the generator            *)
(*   insurance code/claims.py    the module-level loading code             *)
(* A run starts with some set of input files on disk and ends at "end"     *)
(* with load_result telling what its caller (or the shell) gets.           *)
(***************************************************************************)

File(kind, year) == [kind |-> kind, year |-> year]

\* accounts.py: --year defaults to 2024; range(max(2015, year - 3), year).
AccountsYear == 2024
AccountsPreviousYears == (AccountsYear - 3) .. (AccountsYear - 1)

\* bookings.py: range(BASE_YEAR, target_year + 1) with TARGET_YEAR = 2024.
BASE_YEAR == 2021
BookingsTargetYear == 2024
BookingsYears == BASE_YEAR .. BookingsTargetYear

\* The files each script looks for.
FilesOf(script) ==
    CASE script = "accounts" ->
             {File("customers", y) : y \in AccountsPreviousYears \cup {AccountsYear}}
      [] script = "bookings" ->
             {File("flight_schedule", BookingsTargetYear)}
             \cup {File(kind, y) : kind \in {"clients", "planes", "routes"}, y \in BookingsYears}
      [] script = "claims" ->
             {File("insurance_applicants", 0), File("insurance_policies", 0)}

\* for year in range(...): if os.path.exists(file_path): append.
YearFilesFound(kind, years) == {f \in input_files : f.kind = kind /\ f.year \in years}

\* The files a script cannot do without.
MissingRequired(script, files) ==
    CASE script = "accounts" -> File("customers", AccountsYear) \notin files
      [] script = "bookings" ->
             \/ File("flight_schedule", BookingsTargetYear) \notin files
             \/ \E kind \in {"clients", "planes", "routes"} :
                   \A y \in BookingsYears : File(kind, y) \notin files
      [] script = "claims" ->
             \/ File("insurance_applicants", 0) \notin files
             \/ File("insurance_policies", 0) \notin files
      [] OTHER -> FALSE

LoadInit ==
    /\ TrackerIdle /\ BankIdle /\ ClaimsIdle /\ BookingsIdle
    /\ DebitOrdersIdle /\ CustomersIdle /\ FlightsIdle /\ PricesIdle /\ ScheduleIdle /\ FinalIdle
    /\ load_script \in {"accounts", "bookings", "claims"}
    /\ input_files \in SUBSET FilesOf(load_script)
    /\ load_pc = "start"
    /\ printed = FALSE
    /\ load_result = "none"
    /\ output_written = FALSE

\* The end of a run: what was printed, what the caller gets.
Ended(message, result) == [printed |-> message, load_result |-> result, load_pc |-> "end"]

\* The except clause of the previous-year loop of accounts.py (lines 49-50):
\* continue.  Not what the clause at lines 37-39 does.
accounts_except_continue == [printed |-> FALSE, load_result |-> "none", load_pc |-> "previous_years"]

\* accounts.py lines 37-39: print(...); return pd.DataFrame().
accounts_except == Ended(TRUE, "empty_table")

\* bookings.py lines 68-69 re-raise FileNotFoundError out of __init__;
\* generate_airline_bookings (lines 894-896) prints and re-raises it.
bookings_except == Ended(TRUE, "FileNotFoundError")

\* claims.py lines 63-65: print(f"Error: {e}"); exit(1).
claims_except == Ended(TRUE, "SystemExit")

Continue(handler) ==
    /\ printed' = handler.printed
    /\ load_result' = handler.load_result
    /\ load_pc' = handler.load_pc
    /\ UNCHANGED <<load_script, input_files, output_written>>
    /\ UNCHANGED notLoad

Goto(pc) ==
    /\ load_pc' = pc
    /\ UNCHANGED <<load_script, input_files, printed, load_result, output_written>>
    /\ UNCHANGED notLoad

\* accounts.py lines 35-36: the year's customer file is read.
AccountsReadCustomers ==
    /\ load_script = "accounts" /\ load_pc = "start"
    /\ File("customers", AccountsYear) \in input_files
    /\ Goto("previous_years")

\* accounts.py lines 37-39.
AccountsCustomerFileMissing ==
    /\ load_script = "accounts" /\ load_pc = "start"
    /\ File("customers", AccountsYear) \notin input_files
    /\ Continue(accounts_except)

\* accounts.py lines 42-58: the previous years' files, a missing one skipped.
AccountsReadPreviousYears ==
    /\ load_script = "accounts" /\ load_pc = "previous_years"
    /\ Goto("generate")

\* bookings.py line 26.
BookingsReadSchedule ==
    /\ load_script = "bookings" /\ load_pc = "start"
    /\ File("flight_schedule", BookingsTargetYear) \in input_files
    /\ Goto("clients")

\* bookings.py line 26 raises, lines 68-69.
BookingsScheduleMissing ==
    /\ load_script = "bookings" /\ load_pc = "start"
    /\ File("flight_schedule", BookingsTargetYear) \notin input_files
    /\ Continue(bookings_except)

NextKind(kind) == CASE kind = "clients" -> "planes" [] kind = "planes" -> "routes" [] kind = "routes" -> "generate"

\* bookings.py lines 28-36, 41-50, 55-64: at least one file of the kind exists.
BookingsReadYearFiles ==
    /\ load_script = "bookings" /\ load_pc \in {"clients", "planes", "routes"}
    /\ YearFilesFound(load_pc, BookingsYears) # {}
    /\ Goto(NextKind(load_pc))

\* bookings.py lines 37-38, 51-52, 65-66 raise, lines 68-69.
BookingsYearFilesMissing ==
    /\ load_script = "bookings" /\ load_pc \in {"clients", "planes", "routes"}
    /\ YearFilesFound(load_pc, BookingsYears) = {}
    /\ Continue(bookings_except)

\* claims.py lines 60-62.
ClaimsReadInputs ==
    /\ load_script = "claims" /\ load_pc = "start"
    /\ {File("insurance_applicants", 0), File("insurance_policies", 0)} \subseteq input_files
    /\ Goto("generate")

\* claims.py lines 63-65.
ClaimsInputMissing ==
    /\ load_script = "claims" /\ load_pc = "start"
    /\ ~({File("insurance_applicants", 0), File("insurance_policies", 0)} \subseteq input_files)
    /\ Continue(claims_except)

\* The rest of each script: the table is generated and written with
\* to_parquet (accounts.py 376-383, bookings.py 884-892, claims.py 399).
GenerateAndWrite ==
    /\ load_pc = "generate"
    /\ output_written' = TRUE
    /\ load_result' = "table"
    /\ load_pc' = "end"
    /\ UNCHANGED <<load_script, input_files, printed>>
    /\ UNCHANGED notLoad

LoadNext ==
    \/ AccountsReadCustomers
    \/ AccountsCustomerFileMissing
    \/ AccountsReadPreviousYears
    \/ BookingsReadSchedule
    \/ BookingsScheduleMissing
    \/ BookingsReadYearFiles
    \/ BookingsYearFilesMissing
    \/ ClaimsReadInputs
    \/ ClaimsInputMissing
    \/ GenerateAndWrite

SpecLoad == LoadInit /\ [][LoadNext]_vars

\* C15 as stated: every run that finds an input file missing prints a
\* message and returns an empty result; no exception reaches the caller.
C15_MissingFileReturnsEmpty ==
    (load_pc = "end" /\ MissingRequired(load_script, input_files)) =>
        (printed /\ load_result = "empty_table")

\* What each script ends with when a file it needs is missing.
MissingFileResult(script) ==
    CASE script = "accounts" -> "empty_table"
      [] script = "bookings" -> "FileNotFoundError"
      [] script = "claims" -> "SystemExit"

\* C15, amended: a run of one of the three scripts that finds a file it
\* needs missing never writes its output table, and ends having printed a
\* message: generate_accounts returns an empty table, claims.py exits, and
\* the bookings generator raises FileNotFoundError to its caller.
C15_MissingFileStopsWithoutOutput ==
    MissingRequired(load_script, input_files) =>
        /\ ~output_written
        /\ load_pc = "end" => (printed /\ load_result = MissingFileResult(load_script))

\* A bookings run that ended on a missing file, with the error raised.
C15_Witness ==
    /\ load_script = "bookings"
    /\ load_pc = "end"
    /\ MissingRequired(load_script, input_files)
    /\ load_result = "FileNotFoundError"

(***************************************************************************)
(* airplane code/schedules.py: generate_flight_schedule.                   *)
(*                                                                         *)
(* For every day of the year the function walks the popular routes and     *)
(* their flight times, then the other routes and theirs.  One iteration    *)
(* (a route and an hour) either finds no plane at the route's origin and   *)
(* continues, or picks one of the planes there and appends a flight.       *)
(* Times are minutes since 1 January 00:00.                                *)
(***************************************************************************)

\* Days of date_range that are generated, and flights after which the
\* model stops following the schedule.
ScheduleDays == 2
MaxScheduledFlights == 4

Route(id, origin, destination, duration) == [route_id |-> id, origin_airport |-> origin, destination_airport |-> destination, estimated_duration_min |-> duration]

\* routes_df restricted to the target year, line 255.
RouteTables ==
    { <<Route("R1", "JNB", "CPT", 130), Route("R2", "CPT", "JNB", 130)>>,
      <<Route("R1", "JNB", "CPT", 130), Route("R3", "JNB", "PLZ", 100),
        Route("R2", "CPT", "JNB", 130), Route("R4", "PLZ", "JNB", 100)>>,
      <<Route("R2", "CPT", "JNB", 130), Route("R4", "PLZ", "JNB", 100)>> }

PlaneTables == { <<"ZS-AAA">>, <<"ZS-AAA", "ZS-BBB">> }

\* Lines 258-262.
IsPopular(route) ==
    \/ route.origin_airport = "JNB" /\ route.destination_airport \in {"CPT", "DUR"}
    \/ route.origin_airport = "CPT" /\ route.destination_airport = "JNB"
    \/ route.origin_airport = "DUR" /\ route.destination_airport = "JNB"

\* POPULAR_FLIGHT_TIMES.get((origin, destination), [8, 12, 16]).
POPULAR_FLIGHT_TIMES(origin, destination) ==
    IF <<origin, destination>> \in {<<"JNB", "CPT">>, <<"CPT", "JNB">>}
    THEN <<6, 7, 8, 9, 12, 15, 16, 17, 18, 19, 20>>
    ELSE IF <<origin, destination>> \in {<<"JNB", "DUR">>, <<"DUR", "JNB">>}
    THEN <<6, 7, 8, 9, 12, 14, 16, 18, 19>>
    ELSE <<8, 12, 16>>

OtherFlightTimes == <<8, 12, 16>>

\* The iterations of one day, in order: for each route, for each hour.
\* A popular route waits 45 minutes after an arrival, another one 60.
RouteSlots(route) ==
    LET hours == IF IsPopular(route)
                 THEN POPULAR_FLIGHT_TIMES(route.origin_airport, route.destination_airport)
                 ELSE OtherFlightTimes
    IN  [i \in 1 .. Len(hours) |->
            [route |-> route, hour |-> hours[i],
             turnaround |-> IF IsPopular(route) THEN 45 ELSE 60]]

RECURSIVE SlotsOfRoutes(_)
SlotsOfRoutes(routes) ==
    IF routes = << >> THEN << >>
    ELSE RouteSlots(Head(routes)) \o SlotsOfRoutes(Tail(routes))

DaySlots(routes) ==
    SlotsOfRoutes(SelectSeq(routes, IsPopular))
    \o SlotsOfRoutes(SelectSeq(routes, LAMBDA route : ~IsPopular(route)))

\* Lines 288-292 and 345-349.
available_planes(status, origin, turnaround, scheduled_departure) ==
    { plane_id \in DOMAIN status :
        /\ status[plane_id].location = origin
        /\ \/ status[plane_id].last_arrival = None
           \/ status[plane_id].last_arrival.value + turnaround <= scheduled_departure }

\* Lines 329-333 without their condition: the status follows every flight.
update_aircraft_status_always(status, plane_id, destination, scheduled_arrival, is_cancelled) ==
    [status EXCEPT ![plane_id] = [location |-> destination, last_arrival |-> Num(scheduled_arrival)]]

\* Lines 329-333 with the condition on last_arrival only: a cancelled flight
\* still moves the aircraft to the destination.
update_aircraft_status_moves(status, plane_id, destination, scheduled_arrival, is_cancelled) ==
    [status EXCEPT ![plane_id] = [location |-> destination, last_arrival |-> IF is_cancelled THEN @.last_arrival ELSE Num(scheduled_arrival)]]

\* Lines 329-333 and 383-387: if not is_cancelled: update location and
\* last_arrival.
update_aircraft_status(status, plane_id, destination, scheduled_arrival, is_cancelled) ==
    IF is_cancelled THEN status
    ELSE [status EXCEPT ![plane_id] = [location |-> destination, last_arrival |-> Num(scheduled_arrival)]]

ScheduleInit ==
    /\ TrackerIdle /\ BankIdle /\ ClaimsIdle /\ BookingsIdle
    /\ DebitOrdersIdle /\ CustomersIdle /\ FlightsIdle /\ PricesIdle /\ LoadIdle /\ FinalIdle
    /\ planes_df \in PlaneTables
    /\ available_routes \in RouteTables
    /\ aircraft_status = [plane_id \in {planes_df[i] : i \in DOMAIN planes_df} |-> [location |-> "JNB", last_arrival |-> None]]
    /\ schedule = << >>
    /\ current_date = 0
    /\ slot = 1
    /\ schedule_pc = "days"

CurrentSlot == DaySlots(available_routes)[slot]
ScheduledDeparture == current_date * MinutesPerDay + CurrentSlot.hour * MinutesPerHour

InSlot ==
    /\ schedule_pc = "days"
    /\ current_date < ScheduleDays
    /\ slot <= Len(DaySlots(available_routes))

\* Lines 294-295 and 351-352: no plane is available; continue.
NoPlaneAvailable ==
    /\ InSlot
    /\ available_planes(aircraft_status, CurrentSlot.route.origin_airport, CurrentSlot.turnaround, ScheduledDeparture) = {}
    /\ slot' = slot + 1
    /\ UNCHANGED <<planes_df, available_routes, aircraft_status, schedule, current_date, schedule_pc>>
    /\ UNCHANGED notSchedule

\* Lines 297-335 and 354-389: a plane is chosen and the flight appended.
\* A flight can be cancelled when its delay is above 120 minutes.
ScheduleOneFlight ==
    /\ InSlot
    /\ Len(schedule) < MaxScheduledFlights
    /\ \E plane_id \in available_planes(aircraft_status, CurrentSlot.route.origin_airport, CurrentSlot.turnaround, ScheduledDeparture),
          delay_minutes \in {0, 150}, cancel_draw \in BOOLEAN, draws \in {"low", "high"} :
          LET route == CurrentSlot.route
              scheduled_arrival == ScheduledDeparture + route.estimated_duration_min
              actual_departure == ScheduledDeparture + delay_minutes
              actual_arrival == actual_departure + route.estimated_duration_min
              is_cancelled == delay_minutes > 120 /\ cancel_draw
              demand == IF IsPopular(route) THEN Uniform(90, 130) ELSE Uniform(80, 120)
              pick(range) == IF draws = "low" THEN SetMin(range) ELSE SetMax(range)
              final_price == calculate_dynamic_price(TierOf(route.origin_airport).base_price,
                                 Date(TARGET_YEAR, 1, current_date + 1), CurrentSlot.hour,
                                 pick(demand), pick(Uniform(115, 130)), pick(Uniform(120, 150)),
                                 pick(Uniform(110, 125)), pick(Uniform(95, 105)))
          IN  /\ schedule' = Append(schedule,
                     [ planning_id |-> Len(schedule) + 1,
                       route_id |-> route.route_id,
                       plane_id |-> plane_id,
                       scheduled_departure |-> ScheduledDeparture,
                       scheduled_arrival |-> scheduled_arrival,
                       actual_departure |-> IF is_cancelled THEN None ELSE Num(actual_departure),
                       actual_arrival |-> IF is_cancelled THEN None ELSE Num(actual_arrival),
                       is_cancelled |-> is_cancelled,
                       final_price_zar |-> IF is_cancelled THEN None ELSE Num(final_price) ])
              /\ aircraft_status' = update_aircraft_status(aircraft_status, plane_id, route.destination_airport, scheduled_arrival, is_cancelled)
    /\ slot' = slot + 1
    /\ UNCHANGED <<planes_df, available_routes, current_date, schedule_pc>>
    /\ UNCHANGED notSchedule

\* The two inner loops are exhausted: the next day of date_range.
NextScheduleDay ==
    /\ schedule_pc = "days"
    /\ current_date < ScheduleDays
    /\ slot > Len(DaySlots(available_routes))
    /\ current_date' = current_date + 1
    /\ slot' = 1
    /\ UNCHANGED <<planes_df, available_routes, aircraft_status, schedule, schedule_pc>>
    /\ UNCHANGED notSchedule

\* Line 391: return pd.DataFrame(flights).
ReturnSchedule ==
    /\ schedule_pc = "days"
    /\ current_date = ScheduleDays
    /\ schedule_pc' = "done"
    /\ UNCHANGED <<planes_df, available_routes, aircraft_status, schedule, current_date, slot>>
    /\ UNCHANGED notSchedule

ScheduleNext ==
    \/ NoPlaneAvailable
    \/ ScheduleOneFlight
    \/ NextScheduleDay
    \/ ReturnSchedule

SpecSchedule == ScheduleInit /\ [][ScheduleNext]_vars

\* The route of a flight record.
RouteOf(flight) == CHOOSE route \in {available_routes[i] : i \in DOMAIN available_routes} : route.route_id = flight.route_id

\* The earlier non-cancelled flights of the aircraft of flight k.
EarlierFlown(k) == {j \in 1 .. (k - 1) : schedule[j].plane_id = schedule[k].plane_id /\ ~schedule[j].is_cancelled}

\* Where the aircraft of flight k is when flight k is scheduled.
WhereAircraftIs(k) ==
    IF EarlierFlown(k) = {} THEN "JNB"
    ELSE RouteOf(schedule[SetMax(EarlierFlown(k))]).destination_airport

\* C20: every flight of the schedule departs from the airport where its
\* aircraft is: the destination of the aircraft's most recent non-cancelled
\* flight, or JNB if it has none.
C20_FlightDepartsFromAircraftLocation ==
    \A k \in DOMAIN schedule :
        RouteOf(schedule[k]).origin_airport = WhereAircraftIs(k)

\* An aircraft flies again after one of its flights was cancelled.
C20_Witness ==
    \E j \in DOMAIN schedule, k \in DOMAIN schedule :
        /\ j < k
        /\ schedule[j].plane_id = schedule[k].plane_id
        /\ schedule[j].is_cancelled
        /\ EarlierFlown(k) # {}

\* C21: no flight of the schedule has a scheduled departure earlier than the
\* actual arrival of its aircraft's previous non-cancelled flight.
C21_DepartsAfterActualArrival ==
    \A k \in DOMAIN schedule :
        EarlierFlown(k) # {} =>
            schedule[k].scheduled_departure >= schedule[SetMax(EarlierFlown(k))].actual_arrival.value

\* The flight appended by this step, if the step appends one.
FlightAdded == schedule'[Len(schedule')]

\* C22: a step that generates a cancelled flight leaves the location and the
\* last arrival recorded for the assigned aircraft as they were before it.
C22_CancelledFlightKeepsStatus ==
    [][(Len(schedule') = Len(schedule) + 1 /\ FlightAdded.is_cancelled) =>
          aircraft_status'[FlightAdded.plane_id] = aircraft_status[FlightAdded.plane_id]]_vars

\* The last flight generated was cancelled, on a route that leaves the
\* airport its aircraft had flown to before.
C22_Witness ==
    /\ schedule # << >>
    /\ schedule[Len(schedule)].is_cancelled
    /\ aircraft_status[schedule[Len(schedule)].plane_id].last_arrival # None
    /\ RouteOf(schedule[Len(schedule)]).destination_airport # aircraft_status[schedule[Len(schedule)].plane_id].location

(***************************************************************************)
(* SpecSeats: the seat requests of generate_bookings, airplane code/       *)
(* bookings.py.  The loop is the one of SpecBookings and uses its loop     *)
(* variables; the rows are kept in seat_bookings with their booking_id,    *)
(* planning_id and seat_request, and flight_seat_assignments is the        *)
(* dictionary of the seats given out on each flight.                       *)
(***************************************************************************)

\* self.seat_configs.get(aircraft_type, self.seat_configs['default']),
\* lines 77-87 and 426; the layout without its space.
seat_configs(aircraft_type) ==
    CASE aircraft_type = "Embraer E170" -> [rows |-> 19, layout |-> <<"A", "C", "D", "F">>, business_rows |-> 4]
      [] aircraft_type = "ATR 72" -> [rows |-> 18, layout |-> <<"A", "C", "D", "F">>, business_rows |-> 0]
      [] OTHER -> [rows |-> 25, layout |-> <<"A", "B", "C", "D", "E", "F">>, business_rows |-> 3]

\* seat_request is None.
NoSeat == [row |-> 0, seat_letter |-> "None"]

\* Lines 429-430.
available_rows(config, booking_class) ==
    IF booking_class = "business" /\ config.business_rows > 0
    THEN 1 .. config.business_rows
    ELSE (config.business_rows + 1) .. config.rows

\* np.random.choice(available_rows) and np.random.choice(list(seat_letters)):
\* the first and the last row of the class, the first letter of the layout.
SeatDraws(config, booking_class) ==
    {[row |-> row, seat_letter |-> config.layout[1]] :
        row \in {SetMin(available_rows(config, booking_class)), SetMax(available_rows(config, booking_class))}}

\* _generate_seat_assignment, lines 424-440: what it can return.  It returns
\* the first of 50 drawn seats that is not in existing_seats, and None when
\* all 50 are, which takes a drawn seat that is in existing_seats.
generate_seat_assignment(aircraft_type, booking_class, existing_seats) ==
    LET drawn == SeatDraws(seat_configs(aircraft_type), booking_class)
    IN  (drawn \ existing_seats)
        \cup (IF drawn \cap existing_seats # {} THEN {NoSeat} ELSE {})

\* flight_data with the aircraft_type of each flight: a flight out and the
\* flight back two days later, or the day before.
SeatFlightTables ==
    {<<[planning_id |-> "PL0001", origin_city |-> "Johannesburg", destination_city |-> "Cape Town", scheduled_departure |-> DepartureAt(3, 6), aircraft_type |-> "ATR 72"],
       [planning_id |-> "PL0002", origin_city |-> "Cape Town", destination_city |-> "Johannesburg", scheduled_departure |-> d2, aircraft_type |-> t2]>> :
        d2 \in {DepartureAt(2, 6), DepartureAt(5, 6)}, t2 \in {"ATR 72", "Embraer E170", "default"}}

SeatsInit ==
    /\ TrackerIdle /\ BankIdle /\ ClaimsIdle /\ MidIdle /\ MonthlyIdle /\ LoansIdle /\ PaymentsIdle
    /\ flight_data \in SeatFlightTables
    /\ bookings = {}
    /\ bookings_pc = "flight"
    /\ flight_idx = 1
    /\ target_bookings = 0
    /\ current_bookings = 0
    /\ attempts = 0
    /\ flight_seat_assignments = << >>
    /\ booking_counter = 1
    /\ seat_bookings = {}

\* dictionary[key] = value
SetItem(dictionary, key, value) ==
    [k \in DOMAIN dictionary \cup {key} |-> IF k = key THEN value ELSE dictionary[k]]

\* if seat: seats.add(seat), lines 565-566 and 625-626.
AddSeat(seats, seat) == IF seat # NoSeat THEN seats \cup {seat} ELSE seats

\* Line 516: flight_seat_assignments[planning_id] = set()
start_seat_set(assignments, planning_id) ==
    SetItem(assignments, planning_id, {})

\* The head of the for loop, lines 491-521.
StartSeatFlight ==
    /\ bookings_pc = "flight"
    /\ \E n \in 1 .. MaxTargetBookings : target_bookings' = n
    /\ flight_seat_assignments' = start_seat_set(flight_seat_assignments, flight_data[flight_idx].planning_id)
    /\ current_bookings' = 0
    /\ attempts' = 0
    /\ bookings_pc' = "while"
    /\ UNCHANGED <<flight_data, bookings, flight_idx, booking_counter, seat_bookings, notSeats>>

\* The while loop ends; the for loop takes the next flight or ends.
EndSeatFlight ==
    /\ bookings_pc = "while"
    /\ ~WhileCondition
    /\ flight_idx' = flight_idx + 1
    /\ bookings_pc' = IF flight_idx = Len(flight_data) THEN "done" ELSE "flight"
    /\ UNCHANGED <<flight_data, bookings, target_bookings, current_bookings, attempts, seatVars, notSeats>>

\* Lines 531-532: a Cape Town customer on a flight out of Johannesburg.
SkipSeatCustomer ==
    /\ bookings_pc = "while"
    /\ WhileCondition
    /\ flight_data[flight_idx].origin_city = "Johannesburg"
    /\ attempts' = attempts + 1
    /\ UNCHANGED <<flight_data, bookings, bookings_pc, flight_idx, target_bookings, current_bookings, seatVars, notSeats>>

\* Lines 534-662: the booking is appended with its seat, and the return-leg
\* booking with the seat it gets on the return flight.
BookSeat ==
    /\ bookings_pc = "while"
    /\ WhileCondition
    /\ LET flight == flight_data[flight_idx]
           planning_id == flight.planning_id
       IN
       \E passengers \in PassengerSamples,
          trip_type \in {"one-way", "return"},
          booking_class \in {"economy", "business"},
          max_days \in MaxDaysSamples(flight.scheduled_departure) :
       \E seat_request \in generate_seat_assignment(flight.aircraft_type, booking_class, flight_seat_assignments[planning_id]) :
        LET total_passengers == IF current_bookings + passengers > target_bookings THEN 1 ELSE passengers
            after_seat == SetItem(flight_seat_assignments, planning_id, AddSeat(flight_seat_assignments[planning_id], seat_request))
            booking == [booking_id |-> booking_counter, planning_id |-> planning_id, seat_request |-> seat_request, outbound_id |-> 0]
            return_flights == find_return_flight(flight, max_days)
        IN  /\ current_bookings' = current_bookings + total_passengers
            /\ IF trip_type = "return" /\ return_flights # {}
               THEN \E return_flight \in return_flights :
                      LET return_planning_id == return_flight.planning_id
                          return_seats == IF return_planning_id \in DOMAIN after_seat THEN after_seat[return_planning_id] ELSE {}
                      IN  \E return_seat \in generate_seat_assignment(return_flight.aircraft_type, booking_class, return_seats) :
                            /\ flight_seat_assignments' = SetItem(after_seat, return_planning_id, AddSeat(return_seats, return_seat))
                            /\ seat_bookings' = seat_bookings \cup
                                 {booking, [booking_id |-> booking_counter + 1, planning_id |-> return_planning_id, seat_request |-> return_seat, outbound_id |-> booking_counter]}
                            /\ booking_counter' = booking_counter + 2
               ELSE /\ flight_seat_assignments' = after_seat
                    /\ seat_bookings' = seat_bookings \cup {booking}
                    /\ booking_counter' = booking_counter + 1
    /\ attempts' = attempts + 1
    /\ UNCHANGED <<flight_data, bookings, bookings_pc, flight_idx, target_bookings, notSeats>>

SeatsNext ==
    \/ StartSeatFlight
    \/ EndSeatFlight
    \/ SkipSeatCustomer
    \/ BookSeat

SpecSeats == SeatsInit /\ [][SeatsNext]_vars

\* C23: no two rows of the bookings table on the same flight carry the same
\* non-null seat_request, the rows of return legs created while an earlier
\* flight was processed included.
C23_NoSeatGivenTwice ==
    \A b1 \in seat_bookings, b2 \in seat_bookings :
        (b1.booking_id # b2.booking_id /\ b1.planning_id = b2.planning_id /\ b1.seat_request # NoSeat) =>
            b1.seat_request # b2.seat_request

(***************************************************************************)
(* SpecMonthly: generate_debit_order_transactions of banking-code/         *)
(* debit_order_transactions.py, followed for one active debit order.       *)
(*                                                                         *)
(* A date is its ordinal in the year 2024, the last year of the default    *)
(* date_range: 1 is 1 January, a Monday.  The loop over date_range is      *)
(* followed from 1 January to the end of month LastMonthProcessed.         *)
(***************************************************************************)

LastMonthProcessed == 3

\* Timestamp.days_in_month, in 2024.
days_in_month(month) == <<31, 29, 31, 30, 31, 30, 31, 31, 30, 31, 30, 31>>[month]

RECURSIVE DaysBeforeMonth(_)
DaysBeforeMonth(month) ==
    IF month = 1 THEN 0 ELSE DaysBeforeMonth(month - 1) + days_in_month(month - 1)

\* Timestamp.month, Timestamp.day and Timestamp.weekday() of an ordinal.
MonthOfDate(date) == CHOOSE month \in 1 .. 12 : DaysBeforeMonth(month) < date /\ date <= DaysBeforeMonth(month) + days_in_month(month)
DayOfDate(date) == date - DaysBeforeMonth(MonthOfDate(date))
WeekdayOfDate(date) == (date - 1) % 7

\* pd.Timestamp("2025-12-31"), the end of an order without end_date: after
\* every date of the year.
OpenEnd == 366 + 365

Min(a, b) == IF a <= b THEN a ELSE b

\* date.day == start.day or (start.day > 28 and
\*     date.day == min(28, date.days_in_month)), lines 104, 111 and 114.
SameDayOfMonth(start, date) ==
    \/ DayOfDate(date) = DayOfDate(start)
    \/ DayOfDate(start) > 28 /\ DayOfDate(date) = Min(28, days_in_month(MonthOfDate(date)))

\* debit_order_occurs_on, lines 89-118; start and date are of the same year.
debit_order_occurs_on(order, date) ==
    LET freq == order.frequency
        start == order.start_date
        end == IF order.end_date # None THEN order.end_date.value ELSE OpenEnd
    IN  IF ~(start <= date /\ date <= end) THEN FALSE
        ELSE IF order.cancellation_date # None /\ date >= order.cancellation_date.value THEN FALSE
        ELSE IF freq = "Monthly" THEN SameDayOfMonth(start, date)
        ELSE IF freq = "Weekly" THEN WeekdayOfDate(date) = WeekdayOfDate(start)
        ELSE IF freq = "Quarterly"
             THEN (MonthOfDate(date) - MonthOfDate(start)) % 3 = 0 /\ SameDayOfMonth(start, date)
        ELSE IF freq = "Annually"
             THEN MonthOfDate(date) = MonthOfDate(start) /\ SameDayOfMonth(start, date)
        ELSE FALSE

\* The rows of active_debit_orders followed: every frequency of
\* debit_orders.py and one it does not know, a start on each day of January,
\* with and without an end_date (14 February) and a cancellation_date
\* (1 March).
ActiveDebitOrders ==
    [frequency : {"Monthly", "Weekly", "Quarterly", "Annually", "Daily"},
     start_date : 1 .. 31,
     end_date : {None, Num(45)},
     cancellation_date : {None, Num(61)}]

MonthlyInit ==
    /\ TrackerIdle /\ BankIdle /\ ClaimsIdle /\ BookingsIdle /\ MidIdle /\ SeatsIdle /\ LoansIdle /\ PaymentsIdle
    /\ debit_order \in ActiveDebitOrders
    /\ dot_single_date = 1
    /\ dot_transactions = << >>
    /\ dot_pc = "dates"

InDateRange ==
    /\ dot_pc = "dates"
    /\ dot_single_date <= DaysBeforeMonth(LastMonthProcessed) + days_in_month(LastMonthProcessed)

\* Lines 123-184: the order occurs on single_date; its transaction is appended.
DebitOrderOccurs ==
    /\ InDateRange
    /\ debit_order_occurs_on(debit_order, dot_single_date)
    /\ dot_transactions' = Append(dot_transactions, dot_single_date)
    /\ dot_single_date' = dot_single_date + 1
    /\ UNCHANGED <<debit_order, dot_pc, notMonthly>>

\* Lines 123-128: the order does not occur on single_date.
DebitOrderNotDue ==
    /\ InDateRange
    /\ ~debit_order_occurs_on(debit_order, dot_single_date)
    /\ dot_single_date' = dot_single_date + 1
    /\ UNCHANGED <<debit_order, dot_transactions, dot_pc, notMonthly>>

\* Lines 189-201: the date range is exhausted and the table written.
WriteDebitOrderTransactions ==
    /\ dot_pc = "dates"
    /\ ~InDateRange
    /\ dot_pc' = "done"
    /\ UNCHANGED <<debit_order, dot_single_date, dot_transactions, notMonthly>>

MonthlyNext ==
    \/ DebitOrderOccurs
    \/ DebitOrderNotDue
    \/ WriteDebitOrderTransactions

SpecMonthly == MonthlyInit /\ [][MonthlyNext]_vars

\* C24: an active Monthly debit order has at most one transaction in any
\* calendar month, whatever the day of the month it starts on.
C24_MonthlyAtMostOncePerMonth ==
    debit_order.frequency = "Monthly" =>
        \A i \in DOMAIN dot_transactions, j \in DOMAIN dot_transactions :
            i # j => MonthOfDate(dot_transactions[i]) # MonthOfDate(dot_transactions[j])

(***************************************************************************)
(* SpecLoans: generate_loan_payment_schedule of banking-code/              *)
(* loans_trans.py, for one approved loan.                                  *)
(*                                                                         *)
(* Dates are ordinals of 2024 as above; end_year is 2024, the default, so  *)
(* a payment date of a later year is outside the generation range.         *)
(***************************************************************************)

\* The largest terms_months explored.
MaxTermsMonths == 9

\* first_payment_date = (approval_date + timedelta(days=30)).replace(day=1),
\* lines 266-268, as the month it falls in.
first_payment_month(approval_date) == MonthOfDate(approval_date + 30)

\* payment_date = first_payment_date + pd.DateOffset(months=month), line 282:
\* the month of 2024 it falls in; above 12 it is a month of a later year.
PaymentMonth(order, month) == first_payment_month(order.approval_date) + month

\* The first day of a month of 2024.
FirstOfMonth(month) == DaysBeforeMonth(month) + 1

\* Lines 272-278: the loan defaults with a default date.
Defaults(order) ==
    order.in_default_map /\ order.will_default /\ order.default_date # None

\* The loans followed: approved on 1 January or on 26 October; absent from
\* default_map, in it without defaulting, defaulting without a date,
\* defaulting on 14 February and on 1 December, the date of a payment.
LoanSamples ==
    {[approval_date |-> approval, terms_months |-> terms, in_default_map |-> entry[1], will_default |-> entry[2], default_date |-> entry[3]] :
        approval \in {1, 300}, terms \in {2, MaxTermsMonths},
        entry \in {<<FALSE, FALSE, None>>, <<TRUE, FALSE, None>>, <<TRUE, TRUE, None>>,
                   <<TRUE, TRUE, Num(45)>>, <<TRUE, TRUE, Num(FirstOfMonth(12))>>}}

LoansInit ==
    /\ TrackerIdle /\ BankIdle /\ ClaimsIdle /\ BookingsIdle /\ MidIdle /\ SeatsIdle /\ MonthlyIdle /\ PaymentsIdle
    /\ loan \in LoanSamples
    /\ recovery_drawn = 0
    /\ recovery_attempts = 0
    /\ loan_month = 0
    /\ loan_transactions = << >>
    /\ loan_pc = "start"

\* Lines 241-278: the columns are found and, for a loan that defaults, the
\* number of recovery attempts is drawn.
StartLoanSchedule ==
    /\ loan_pc = "start"
    /\ IF Defaults(loan)
       THEN \E drawn \in 2 .. 6 : recovery_drawn' = drawn /\ recovery_attempts' = drawn
       ELSE recovery_drawn' = 0 /\ recovery_attempts' = 0
    /\ loan_pc' = "months"
    /\ UNCHANGED <<loan, loan_month, loan_transactions, notLoans>>

InTerms == loan_pc = "months" /\ loan_month < loan.terms_months

\* will_default and payment_date >= default_date, line 292.
AfterDefault(order, month) ==
    /\ order.in_default_map /\ order.will_default
    /\ order.default_date # None
    /\ FirstOfMonth(PaymentMonth(order, month)) >= order.default_date.value

\* Lines 284-286: the payment date is outside the generation range.
SkipOutOfRange ==
    /\ InTerms
    /\ PaymentMonth(loan, loan_month) > 12
    /\ loan_month' = loan_month + 1
    /\ UNCHANGED <<loan, recovery_drawn, recovery_attempts, loan_transactions, loan_pc, notLoans>>

\* Line 299 without the decrement.
after_recovery_attempt_kept(attempts_left) == attempts_left

\* recovery_attempts -= 1, line 299.
after_recovery_attempt(attempts_left) == attempts_left - 1

\* generate_payment_variations, lines 324-375: the list it returns, always
\* of one variation; its type is the only field kept.
generate_payment_variations(is_recovery_attempt, rand) ==
    IF is_recovery_attempt
    THEN IF rand = "low" THEN <<"partial_payment">> ELSE <<"regular_payment">>
    ELSE IF rand = "low" THEN <<"regular_payment">> ELSE <<"extra_payment">>

\* Lines 288-320: the payment is processed, as a regular payment before the
\* default date and as a recovery attempt from it on.
ProcessPayment ==
    /\ InTerms
    /\ PaymentMonth(loan, loan_month) <= 12
    /\ AfterDefault(loan, loan_month) => recovery_attempts > 0
    /\ \E rand \in {"low", "high"} :
        LET is_recovery_attempt == AfterDefault(loan, loan_month)
            payment_variations == generate_payment_variations(is_recovery_attempt, rand)
        IN  /\ loan_transactions' = loan_transactions \o
                  [v \in DOMAIN payment_variations |->
                      [transaction_date |-> FirstOfMonth(PaymentMonth(loan, loan_month)),
                       payment_type |-> payment_variations[v],
                       is_recovery_attempt |-> is_recovery_attempt]]
            /\ recovery_attempts' = IF is_recovery_attempt THEN after_recovery_attempt(recovery_attempts) ELSE recovery_attempts
    /\ loan_month' = loan_month + 1
    /\ UNCHANGED <<loan, recovery_drawn, loan_pc, notLoans>>

\* Lines 292-306: from the default date on, a payment is not processed when
\* no attempt is left or the 30% draw fails.
SkipAfterDefault ==
    /\ InTerms
    /\ PaymentMonth(loan, loan_month) <= 12
    /\ AfterDefault(loan, loan_month)
    /\ loan_month' = loan_month + 1
    /\ UNCHANGED <<loan, recovery_drawn, recovery_attempts, loan_transactions, loan_pc, notLoans>>

\* Line 322: return loan_transactions.
ReturnLoanTransactions ==
    /\ loan_pc = "months"
    /\ loan_month >= loan.terms_months
    /\ loan_pc' = "done"
    /\ UNCHANGED <<loan, recovery_drawn, recovery_attempts, loan_month, loan_transactions, notLoans>>

LoansNext ==
    \/ StartLoanSchedule
    \/ SkipOutOfRange
    \/ ProcessPayment
    \/ SkipAfterDefault
    \/ ReturnLoanTransactions

SpecLoans == LoansInit /\ [][LoansNext]_vars

\* The rows of the loan dated on or after its default date.
FromDefaultOn == {i \in DOMAIN loan_transactions : loan_transactions[i].transaction_date >= loan.default_date.value}

\* C25: for a loan that defaults, the transactions with a payment date on or
\* after the default date are recovery attempts, no more of them than the
\* number drawn, which is between 2 and 6; every other payment scheduled
\* from the default date on is skipped.
C25_AtMostDrawnRecoveryPayments ==
    (Defaults(loan) /\ loan_pc # "start") =>
        /\ recovery_drawn \in 2 .. 6
        /\ Cardinality(FromDefaultOn) = recovery_drawn - recovery_attempts
        /\ Cardinality(FromDefaultOn) <= recovery_drawn
        /\ \A i \in FromDefaultOn : loan_transactions[i].is_recovery_attempt

\* The schedule of a defaulted loan has returned with all six drawn attempts
\* made and a later payment skipped.
C25_Witness ==
    /\ loan_pc = "done"
    /\ Defaults(loan)
    /\ recovery_drawn = 6
    /\ Cardinality(FromDefaultOn) = 6
    /\ \E month \in 0 .. (loan.terms_months - 1) :
          /\ AfterDefault(loan, month)
          /\ \A i \in DOMAIN loan_transactions : loan_transactions[i].transaction_date # FirstOfMonth(PaymentMonth(loan, month))

(***************************************************************************)
(* SpecPayments: the loop body of insurance code/payment_history.py for    *)
(* one policy.                                                             *)
(*                                                                         *)
(* policy_information.py draws Effective_Date in 2015-2020 and caps        *)
(* Expiration_Date at 2020-12-31.  A policy effective in 2020 is followed: *)
(* a date is its ordinal from 1 January 2020, and 2020 has the calendar    *)
(* of days_in_month above; 367 is 1 January 2021.                          *)
(***************************************************************************)

\* 31 December 2020, date(2020, 12, 31) of policy_information.py.
EndOf2020 == DaysBeforeMonth(12) + days_in_month(12)

\* pd.Timestamp(next_month.year, next_month.month, 1) for next_month =
\* base_date + 32 days, which is in 2020 or in January or on 1 February 2021.
FirstOfMonthOf(date) ==
    IF date <= EndOf2020 THEN FirstOfMonth(MonthOfDate(date))
    ELSE IF date <= EndOf2020 + 31 THEN EndOf2020 + 1
    ELSE EndOf2020 + 32

\* get_payment_date, lines 46-65; base_date is a date of 2020.
get_payment_date(base_date, frequency, number) ==
    IF frequency = "Monthly"
    THEN FirstOfMonthOf(base_date + 32) - 1
    ELSE IF frequency = "Quarterly"
    THEN LET quarter_month == ((MonthOfDate(base_date) - 1) \div 3) * 3 + 3
         IN  FirstOfMonth(quarter_month) + number * 91
    ELSE IF frequency = "Semi-Annually"
    THEN IF MonthOfDate(base_date) <= 6
         THEN DaysBeforeMonth(6) + 30
         ELSE EndOf2020
    ELSE IF frequency = "Annually"
    THEN base_date + number * 365
    ELSE base_date

\* Lines 123-130: the step of current_date; none for another frequency.
next_current_date(date, frequency) ==
    IF frequency = "Monthly" THEN date + 30
    ELSE IF frequency = "Quarterly" THEN date + 91
    ELSE IF frequency = "Semi-Annually" THEN date + 182
    ELSE IF frequency = "Annually" THEN date + 365
    ELSE date

\* The rows of df_policies followed: the frequencies of PAYMENT_FREQ in
\* policy_information.py and the one more that frequency_days names; an
\* Effective_Date on the first, on every fifteenth and on the last day of
\* 2020; a duration of no day, of 45 and 200 days, and of five years, the
\* Expiration_Date being min(effective_date + duration, date(2020, 12, 31)).
PolicySamples ==
    {[Payment_Frequency |-> frequency, Effective_Date |-> effective, Expiration_Date |-> Min(effective + duration, EndOf2020)] :
        frequency \in {"Monthly", "Quarterly", "Semi-Annually", "Annually", "Single Premium"},
        effective \in {1, EndOf2020} \cup {d \in 1 .. EndOf2020 : d % 15 = 0},
        duration \in {0, 45, 200, 5 * 365}}

PaymentsInit ==
    /\ TrackerIdle /\ BankIdle /\ ClaimsIdle /\ BookingsIdle /\ MidIdle /\ SeatsIdle /\ MonthlyIdle /\ LoansIdle
    /\ pay_policy \in PolicySamples
    /\ pay_current_date = 0
    /\ payment_number = 0
    /\ all_payments = << >>
    /\ pay_pc = "policy"

\* Lines 80-82: the policy lasts less than a day; continue.
SkipShortPolicy ==
    /\ pay_pc = "policy"
    /\ pay_policy.Expiration_Date - pay_policy.Effective_Date < 1
    /\ pay_pc' = "next"
    /\ UNCHANGED <<pay_policy, pay_current_date, payment_number, all_payments, notPayments>>

\* Lines 84-95: one payment on the effective date; continue.
SinglePremiumPayment ==
    /\ pay_pc = "policy"
    /\ pay_policy.Expiration_Date - pay_policy.Effective_Date >= 1
    /\ pay_policy.Payment_Frequency = "Single Premium"
    /\ all_payments' = Append(all_payments, pay_policy.Effective_Date)
    /\ pay_pc' = "next"
    /\ UNCHANGED <<pay_policy, pay_current_date, payment_number, notPayments>>

\* Lines 97-99: the recurring payments start at the effective date.
StartRecurringPayments ==
    /\ pay_pc = "policy"
    /\ pay_policy.Expiration_Date - pay_policy.Effective_Date >= 1
    /\ pay_policy.Payment_Frequency # "Single Premium"
    /\ pay_current_date' = pay_policy.Effective_Date
    /\ payment_number' = 0
    /\ pay_pc' = "while"
    /\ UNCHANGED <<pay_policy, all_payments, notPayments>>

\* Lines 101-130: an iteration of the while loop that appends a payment.
RecurringPayment ==
    /\ pay_pc = "while"
    /\ pay_current_date <= pay_policy.Expiration_Date
    /\ LET payment_date == get_payment_date(pay_current_date, pay_policy.Payment_Frequency, payment_number)
       IN  /\ payment_date <= pay_policy.Expiration_Date
           /\ all_payments' = Append(all_payments, payment_date)
    /\ payment_number' = payment_number + 1
    /\ pay_current_date' = next_current_date(pay_current_date, pay_policy.Payment_Frequency)
    /\ UNCHANGED <<pay_policy, pay_pc, notPayments>>

\* Lines 101 and 106-107: the while condition fails, or the payment date is
\* after the expiration date and the loop breaks.
EndRecurringPayments ==
    /\ pay_pc = "while"
    /\ \/ pay_current_date > pay_policy.Expiration_Date
       \/ /\ pay_current_date <= pay_policy.Expiration_Date
          /\ get_payment_date(pay_current_date, pay_policy.Payment_Frequency, payment_number) > pay_policy.Expiration_Date
    /\ pay_pc' = "next"
    /\ UNCHANGED <<pay_policy, pay_current_date, payment_number, all_payments, notPayments>>

PaymentsNext ==
    \/ SkipShortPolicy
    \/ SinglePremiumPayment
    \/ StartRecurringPayments
    \/ RecurringPayment
    \/ EndRecurringPayments

SpecPayments == PaymentsInit /\ [][PaymentsNext]_vars

\* C26: every payment record of a policy has a Payment_Date from the
\* policy's Effective_Date to its Expiration_Date, both included.
C26_PaymentWithinPolicyPeriod ==
    \A i \in DOMAIN all_payments :
        /\ pay_policy.Effective_Date <= all_payments[i]
        /\ all_payments[i] <= pay_policy.Expiration_Date

====
